---- MODULE Spec2Model ----
(***************************************************************************)
(* A model of pbcode's core: the import tree builder (resolveImportPaths), *)
(* the alias resolver (PathResolver), the file path locator                *)
(* (resolveAliasPath / tryExtensions), the declaration extractor           *)
(* (CodeExtractor) and the copy command that puts them together.           *)
(***************************************************************************)
EXTENDS Integers, Sequences, FiniteSets, TLC

(***************************************************************************)
(* Bounds of the import tree builder's model.                              *)
(***************************************************************************)
\* the largest maxDepth a caller passes
MaxDepth == 3
\* the number of import statements in all the files that are read
MaxTotalImports == 3

(***************************************************************************)
(* The files of the workspace and the import statements that occur in them.*)
(* An import statement's specifier is kept as its first character (all     *)
(* resolveImportPaths looks at) and as what the probes of the filesystem   *)
(* find for it: a path, nothing, or an exception inside resolveAliasPath   *)
(* (path.join of an undefined first target, an alias that is no regular    *)
(* expression).                                                            *)
(***************************************************************************)
Paths == {"main", "a", "b", "c"}
RootFile == "main"
NotFound == "null"
Throws == "throws"

Sources ==
    [first : {"."}, probe : {"main", "a", "b", NotFound}]
      \cup [first : {"@"}, probe : {"c", Throws}]
      \cup [first : {"~"}, probe : {"c"}]

\* parseImports: every ImportInfo starts with resolvedPath = ""
ParsedImport(src) == [source |-> src, resolvedPath |-> ""]

ImportLists(n) ==
    UNION {[1..k -> {ParsedImport(s) : s \in Sources}] : k \in 0..n}

VARIABLES
    workspaceRoot,   \* whether vscode.workspace.workspaceFolders has a first folder
    depthArg,        \* the maxDepth of the top-level call
    processedPaths,  \* the Set shared by the whole traversal
    insertionOrder,  \* its members in the order in which they were added
    stack,           \* the activations of resolveImportPaths, innermost last
    disk,            \* what reading each file gives
    status,          \* of the top-level call: "running", "returned", "threw"
    result,          \* the forest the top-level call returned
    aliasMap,        \* PathResolver.aliasMap: the entries in the order of their keys
    added,           \* the number of addAlias calls made
    rCall,           \* the last resolvePath call: its argument and what it returned
    tsconfig,        \* loadTSConfig's result: compilerOptions.paths, empty when there is none
    locating,        \* the specifier given to resolveAliasPath
    fileSystem,      \* the paths fs.access finds, as they continue the workspace root
    located,         \* what resolveAliasPath did: pending, a path, null, or a throw
    sourceCode,      \* the text given to extractImportedEntities, line by line
    importInfo,      \* the bindings of the import record given with it
    seenDeclarations,\* CodeExtractor.seenDeclarations, kept by the instance
    calls,           \* the calls made on the instance so far
    firstOutput,     \* what the first call with sourceCode and importInfo returned
    lastOutput,      \* what the latest call returned, and its scan
    clipboard,       \* what the copy command wrote: the option taken and the files
                     \* whose extracted code is in the text
    lineCount,       \* mainFile.lineCount
    window           \* vscode.window as the copy command uses it: the file
                     \* selector and its promise, the warning, the notification

treeVars ==
    <<workspaceRoot, depthArg, processedPaths, insertionOrder, stack, disk, status,
      result>>

resolverVars == <<aliasMap, added, rCall>>

locatorVars == <<tsconfig, locating, fileSystem, located>>

extractorVars ==
    <<sourceCode, importInfo, seenDeclarations, calls, firstOutput, lastOutput>>

copyVars == <<clipboard, lineCount, window>>

vars == <<treeVars, resolverVars, locatorVars, extractorVars, copyVars>>

\* vscode.window before the copy command has shown anything
NoWindow ==
    [option |-> "none", selector |-> "none", selectedFiles |-> << >>,
     accepted |-> FALSE, promise |-> [state |-> "pending", files |-> << >>],
     warning |-> "none", files |-> {}, totalLines |-> 0, information |-> FALSE]

\* lastOutput before the extractor was called
NoOutput ==
    [extracted |-> << >>, stores |-> << >>,
     collecting |-> FALSE, diagnostics |-> << >>]

Unknown == [state |-> "unknown", imports |-> << >>]
Unreadable == [state |-> "unreadable", imports |-> << >>]
Text(imps) == [state |-> "text", imports |-> imps]

RECURSIVE SumLen(_, _)
SumLen(d, S) ==
    IF S = {} THEN 0
    ELSE LET f == CHOOSE x \in S : TRUE
         IN Len(d[f].imports) + SumLen(d, S \ {f})

\* import statements read so far
Revealed == SumLen(disk, Paths)

----------------------------------------------------------------------------
(***************************************************************************)
(* resolveImportPaths, src/src/utils/pathResolution.ts:70-132              *)
(***************************************************************************)

Frame(file, imps, depth) ==
    [currentFilePath |-> file, imports |-> imps, i |-> 1, maxDepth |-> depth,
     resolvedTrees |-> << >>, pc |-> "entry",
     handled |-> [j \in 1..Len(imps) |-> [seen |-> {}, outcome |-> "pending"]]]

Top == stack[Len(stack)]

SetTop(f) == [stack EXCEPT ![Len(stack)] = f]

\* lines 89-103: which locator a specifier goes to
ResolveImport(src) ==
    IF src.first = "@" THEN src.probe
    ELSE IF src.first = "." THEN src.probe
    ELSE NotFound

\* line 105: processedPaths.has(resolvedPath)
AlreadyProcessedNever(p) == FALSE

AlreadyProcessed(p) == p \in processedPaths

\* line 110: whether nested imports are followed
FollowsNestedAlways(d) == d >= 1

FollowsNested(d) == d > 1

\* line 118: the depth handed to the nested call
NestedDepthSame(d) == d

NestedDepth(d) == d - 1

\* line 87: the for-of loop goes on to the next import
NextImportStuck(i) == i

NextImport(i) == i + 1

\* lines 126-128: the catch is inside the loop, which goes on
AfterFailureAbort(i, n) == n + 1

AfterFailure(i, n) == NextImport(i)

\* line 85: processedPaths.add(currentFilePath)
MarkedAtEntryNot(p) == processedPaths

MarkedAtEntry(p) == processedPaths \cup {p}

\* a Set keeps its members in the order of their first add; at most one
\* member is added at a time
Inserted(after) ==
    IF after = processedPaths THEN insertionOrder
    ELSE Append(insertionOrder, CHOOSE p \in after : p \notin processedPaths)

\* line 123: resolvedTrees.push
PushTreeInFront(trees, node) == <<node>> \o trees

PushTree(trees, node) == Append(trees, node)

AtImport ==
    /\ status = "running"
    /\ Top.pc = "loop"
    /\ Top.i <= Len(Top.imports)

CurrentImport == Top.imports[Top.i]

Handled(outcome) == [seen |-> processedPaths, outcome |-> outcome]

TreeInit ==
    /\ workspaceRoot \in BOOLEAN
    /\ depthArg \in 1..MaxDepth
    /\ processedPaths = {}
    /\ insertionOrder = << >>
    /\ \E imps \in ImportLists(MaxTotalImports) :
          /\ disk = [f \in Paths |-> IF f = RootFile THEN Text(imps) ELSE Unknown]
          /\ stack = <<Frame(RootFile, imps, depthArg)>>
    /\ status = "running"
    /\ result = << >>
    \* no resolver is looked at and no file is located on its own
    /\ aliasMap = << >>
    /\ added = 0
    /\ rCall = [called |-> FALSE]
    /\ tsconfig = << >>
    /\ locating = << >>
    /\ fileSystem = {}
    /\ located = [state |-> "idle"]
    /\ sourceCode = << >>
    /\ importInfo = << >>
    /\ seenDeclarations = {}
    /\ calls = "idle"
    /\ firstOutput = << >>
    /\ lastOutput = NoOutput
    /\ clipboard = [written |-> FALSE]
    /\ lineCount = 1
    /\ window = NoWindow

\* lines 76-85: the workspace root is there, the current file is marked
Enter ==
    /\ status = "running"
    /\ Top.pc = "entry"
    /\ workspaceRoot
    /\ processedPaths' = MarkedAtEntry(Top.currentFilePath)
    /\ insertionOrder' = Inserted(processedPaths')
    /\ stack' = SetTop([Top EXCEPT !.pc = "loop"])
    /\ UNCHANGED <<workspaceRoot, depthArg, disk, status, result>>

\* lines 76-79: throw new Error("No workspace root found")
EnterThrows ==
    /\ status = "running"
    /\ Top.pc = "entry"
    /\ ~workspaceRoot
    /\ Len(stack) = 1
    /\ status' = "threw"
    /\ stack' = SetTop([Top EXCEPT !.pc = "threw"])
    /\ UNCHANGED <<workspaceRoot, depthArg, processedPaths, insertionOrder, disk, result>>

\* lines 91-96, 126-128: resolveAliasPath throws, the catch logs it
ResolveThrows ==
    /\ AtImport
    /\ ResolveImport(CurrentImport.source) = Throws
    /\ stack' = SetTop([Top EXCEPT !.i = AfterFailure(Top.i, Len(Top.imports)),
                                   !.handled[Top.i] = (Handled("threw"))])
    /\ UNCHANGED <<workspaceRoot, depthArg, processedPaths, insertionOrder, disk, status,
                   result>>

\* line 105: nothing found, or the path is in processedPaths
SkipImport ==
    /\ AtImport
    /\ LET r == ResolveImport(CurrentImport.source)
       IN /\ r # Throws
          /\ r = NotFound \/ AlreadyProcessed(r)
          /\ stack' = SetTop([Top EXCEPT
                 !.i = NextImport(Top.i),
                 !.handled[Top.i] = (Handled(IF r = NotFound THEN "unresolved"
                                                ELSE "processed"))])
    /\ UNCHANGED <<workspaceRoot, depthArg, processedPaths, insertionOrder, disk, status,
                   result>>

\* lines 105-108, 123-124 with maxDepth = 1: a node without nestedImports
AddLeaf ==
    /\ AtImport
    /\ LET r == ResolveImport(CurrentImport.source)
           info == [CurrentImport EXCEPT !.resolvedPath = r]
       IN /\ r \in Paths
          /\ ~AlreadyProcessed(r)
          /\ ~FollowsNested(Top.maxDepth)
          /\ stack' = SetTop([Top EXCEPT
                 !.imports[Top.i] = info,
                 !.resolvedTrees = PushTree(@, [importInfo |-> info,
                                                hasNested |-> FALSE,
                                                nestedImports |-> << >>]),
                 !.i = NextImport(Top.i),
                 !.handled[Top.i] = (Handled("node"))])
          /\ processedPaths' = processedPaths \cup {r}
          /\ insertionOrder' = Inserted(processedPaths')
    /\ UNCHANGED <<workspaceRoot, depthArg, disk, status, result>>

\* lines 106, 111-114, 126-128: openTextDocument or parseImports throws
OpenFails ==
    /\ AtImport
    /\ LET r == ResolveImport(CurrentImport.source)
           info == [CurrentImport EXCEPT !.resolvedPath = r]
       IN /\ r \in Paths
          /\ ~AlreadyProcessed(r)
          /\ FollowsNested(Top.maxDepth)
          /\ disk[r].state \in {"unknown", "unreadable"}
          /\ disk' = [disk EXCEPT ![r] = Unreadable]
          /\ stack' = SetTop([Top EXCEPT
                 !.imports[Top.i] = info,
                 !.i = AfterFailure(Top.i, Len(Top.imports)),
                 !.handled[Top.i] = (Handled("unreadable"))])
    /\ UNCHANGED <<workspaceRoot, depthArg, processedPaths, insertionOrder, status, result>>

\* lines 106-120: the file is read and the nested call is made
Descend ==
    /\ AtImport
    /\ LET r == ResolveImport(CurrentImport.source)
           info == [CurrentImport EXCEPT !.resolvedPath = r]
       IN /\ r \in Paths
          /\ ~AlreadyProcessed(r)
          /\ FollowsNested(Top.maxDepth)
          /\ disk[r].state \in {"unknown", "text"}
          /\ \E imps \in (IF disk[r].state = "text" THEN {disk[r].imports}
                          ELSE ImportLists(MaxTotalImports - Revealed)) :
                /\ disk' = [disk EXCEPT ![r] = Text(imps)]
                /\ stack' = Append(
                       SetTop([Top EXCEPT !.imports[Top.i] = info,
                                          !.handled[Top.i] = (Handled("node"))]),
                       Frame(r, imps, NestedDepth(Top.maxDepth)))
    /\ UNCHANGED <<workspaceRoot, depthArg, processedPaths, insertionOrder, status, result>>

\* lines 115-124, 131: the nested call returns its trees to the caller
Return ==
    /\ status = "running"
    /\ Len(stack) > 1
    /\ Top.pc = "loop"
    /\ Top.i > Len(Top.imports)
    /\ LET caller == stack[Len(stack) - 1]
           info == caller.imports[caller.i]
       IN /\ stack' = [SubSeq(stack, 1, Len(stack) - 1) EXCEPT
                 ![Len(stack) - 1] = [caller EXCEPT
                     !.resolvedTrees = PushTree(@, [importInfo |-> info,
                                                    hasNested |-> TRUE,
                                                    nestedImports |-> Top.resolvedTrees]),
                     !.i = NextImport(caller.i)]]
          /\ processedPaths' = processedPaths \cup {info.resolvedPath}
          /\ insertionOrder' = Inserted(processedPaths')
    /\ UNCHANGED <<workspaceRoot, depthArg, disk, status, result>>

\* line 131: the top-level call returns
Finish ==
    /\ status = "running"
    /\ Len(stack) = 1
    /\ Top.pc = "loop"
    /\ Top.i > Len(Top.imports)
    /\ status' = "returned"
    /\ result' = Top.resolvedTrees
    /\ stack' = SetTop([Top EXCEPT !.pc = "returned"])
    /\ UNCHANGED <<workspaceRoot, depthArg, processedPaths, insertionOrder, disk>>

TreeOnly == UNCHANGED <<resolverVars, locatorVars, extractorVars, copyVars>>

TreeNext ==
    \/ Enter /\ TreeOnly
    \/ EnterThrows /\ TreeOnly
    \/ ResolveThrows /\ TreeOnly
    \/ SkipImport /\ TreeOnly
    \/ AddLeaf /\ TreeOnly
    \/ OpenFails /\ TreeOnly
    \/ Descend /\ TreeOnly
    \/ Return /\ TreeOnly
    \/ Finish /\ TreeOnly

TreeSpec == TreeInit /\ [][TreeNext]_vars

\* the calls are awaited one after another: a step that can be taken is taken
TreeFairSpec == TreeSpec /\ WF_vars(TreeNext)

----------------------------------------------------------------------------
(***************************************************************************)
(* Strings.  A string is the sequence of its characters.  The characters   *)
(* of the model are @ / a b s t , and the ones the code treats specially:  *)
(* * ? { } [ ] in aliases, $ & in targets (String.prototype.replace).      *)
(* Alias patterns hold none of ^ $ \ | + ( ) - . or digits.                *)
(***************************************************************************)
Includes(s, c) == \E i \in 1..Len(s) : s[i] = c

StartsWith(s, p) == Len(p) <= Len(s) /\ SubSeq(s, 1, Len(p)) = p

\* String.prototype.indexOf, 1-based; 0 when pat does not occur
IndexOf(s, pat) ==
    LET hits == {i \in 1..(Len(s) + 1) :
                    /\ i + Len(pat) - 1 <= Len(s)
                    /\ SubSeq(s, i, i + Len(pat) - 1) = pat}
    IN IF hits = {} THEN 0 ELSE CHOOSE i \in hits : \A j \in hits : i <= j

\* s.replace(/\/+/g, "/")
RECURSIVE CollapseSlashes(_)
CollapseSlashes(s) ==
    IF Len(s) <= 1 THEN s
    ELSE IF s[1] = "/" /\ s[2] = "/" THEN CollapseSlashes(Tail(s))
    ELSE <<s[1]>> \o CollapseSlashes(Tail(s))

\* s.replace(/\*+$/, "*")
RECURSIVE CollapseTrailingStars(_)
CollapseTrailingStars(s) ==
    IF Len(s) >= 2 /\ s[Len(s)] = "*" /\ s[Len(s) - 1] = "*"
    THEN CollapseTrailingStars(SubSeq(s, 1, Len(s) - 1))
    ELSE s

\* s.split("*")[0]
BeforeStar(s) ==
    LET i == IndexOf(s, <<"*">>)
    IN IF i = 0 THEN s ELSE SubSeq(s, 1, i - 1)

\* the replacement text of String.prototype.replace with a string pattern:
\* $$ is $ and $& is the matched text (the model's strings hold neither of
\* the two other special pairs, $ with a backquote and $ with a quote)
RECURSIVE GetSubstitution(_, _)
GetSubstitution(rep, matched) ==
    IF rep = << >> THEN << >>
    ELSE IF rep[1] = "$" /\ Len(rep) >= 2 /\ rep[2] \in {"$", "&"}
    THEN (IF rep[2] = "$" THEN <<"$">> ELSE matched)
           \o GetSubstitution(SubSeq(rep, 3, Len(rep)), matched)
    ELSE <<rep[1]>> \o GetSubstitution(Tail(rep), matched)

\* a replacement text taken as it is written
StringReplacePlain(s, pat, rep) ==
    LET i == IndexOf(s, pat)
    IN IF i = 0 THEN s
       ELSE SubSeq(s, 1, i - 1) \o rep \o SubSeq(s, i + Len(pat), Len(s))

\* s.replace(pat, rep) with strings pat and rep: the first occurrence only
StringReplace(s, pat, rep) ==
    LET i == IndexOf(s, pat)
    IN IF i = 0 THEN s
       ELSE SubSeq(s, 1, i - 1) \o GetSubstitution(rep, pat)
              \o SubSeq(s, i + Len(pat), Len(s))

(***************************************************************************)
(* PathResolver, src/unnamed/part_002                                      *)
(***************************************************************************)

\* lines 31-38
isGlobPattern(pattern) ==
    \/ Includes(pattern, "*")
    \/ Includes(pattern, "?")
    \/ Includes(pattern, "{")
    \/ Includes(pattern, "[")

\* .replace(/\*/g, ".*") and .replace(/\?/g, ".")
RECURSIVE StarsAndMarks(_)
StarsAndMarks(s) ==
    IF s = << >> THEN << >>
    ELSE (IF s[1] = "*" THEN <<".", "*">>
          ELSE IF s[1] = "?" THEN <<".">>
          ELSE <<s[1]>>) \o StarsAndMarks(Tail(s))

\* .replace(/{([^}]+)}/g, "($1)"): a brace group with something in it
RECURSIVE BraceGroups(_)
BraceGroups(s) ==
    IF s = << >> THEN << >>
    ELSE IF s[1] = "{"
    THEN LET close == IndexOf(Tail(s), <<"}">>) + 1
         IN IF close > 2
            THEN <<"(">> \o SubSeq(s, 2, close - 1) \o <<")">>
                   \o BraceGroups(SubSeq(s, close + 1, Len(s)))
            ELSE <<"{">> \o BraceGroups(Tail(s))
    ELSE <<s[1]>> \o BraceGroups(Tail(s))

\* lines 42-46; .replace(/\[([^\]]+)\]/g, "[$1]") writes back what it matched
GlobToRegex(pattern) == BraceGroups(StarsAndMarks(pattern))

\* new RegExp: the terms of the pattern, or invalid (a SyntaxError).  A term
\* is a set of characters (any: every character) and may be starred; groups
\* hold no alternative and no quantifier follows one, so they match as their
\* content does.
RECURSIVE Terms(_, _)
Terms(re, depth) ==
    IF re = << >>
    THEN [valid |-> depth = 0, terms |-> << >>]
    ELSE IF re[1] = "("
    THEN Terms(Tail(re), depth + 1)
    ELSE IF re[1] = ")"
    THEN IF depth = 0 THEN [valid |-> FALSE, terms |-> << >>]
         ELSE Terms(Tail(re), depth - 1)
    ELSE IF re[1] = "*"
    THEN [valid |-> FALSE, terms |-> << >>]
    ELSE LET close == IF re[1] = "[" THEN IndexOf(Tail(re), <<"]">>) + 1 ELSE 1
             atomEnd == close
             chars == IF re[1] = "["
                      THEN {re[j] : j \in 2..(close - 1)}
                      ELSE {re[1]}
             starred == atomEnd < Len(re) /\ re[atomEnd + 1] = "*"
             rest == Terms(SubSeq(re, atomEnd + (IF starred THEN 2 ELSE 1), Len(re)), depth)
         IN IF re[1] = "[" /\ close = 1
            THEN [valid |-> FALSE, terms |-> << >>]
            ELSE [valid |-> rest.valid,
                  terms |-> <<[any |-> re[1] = ".", chars |-> chars,
                               star |-> starred]>> \o rest.terms]

TermTakes(term, c) == term.any \/ c \in term.chars

\* whether the terms from k on match the whole of s from j on
RECURSIVE TermsMatch(_, _, _, _)
TermsMatch(terms, k, s, j) ==
    IF k > Len(terms) THEN j > Len(s)
    ELSE IF terms[k].star
    THEN \/ TermsMatch(terms, k + 1, s, j)
         \/ /\ j <= Len(s)
            /\ TermTakes(terms[k], s[j])
            /\ TermsMatch(terms, k, s, j + 1)
    ELSE /\ j <= Len(s)
         /\ TermTakes(terms[k], s[j])
         /\ TermsMatch(terms, k + 1, s, j + 1)

\* line 48: whether new RegExp(`^${regexPattern}$`) is a regular expression
Compiles(pattern) == Terms(GlobToRegex(pattern), 0).valid

\* lines 40-50
matchGlobPattern(path, pattern) ==
    TermsMatch(Terms(GlobToRegex(pattern), 0).terms, 1, path, 1)

\* line 60 taken for every alias
replaceAliasAsLiteral(path, alias, target) == StringReplace(path, alias, target)

\* lines 52-61
replaceAlias(path, alias, target) ==
    IF isGlobPattern(alias)
    THEN LET aliasBase == BeforeStar(alias)
             targetBase == BeforeStar(target)
             remainder == SubSeq(path, Len(aliasBase) + 1, Len(path))
         IN targetBase \o remainder
    ELSE StringReplace(path, alias, target)

\* lines 24-26, 106-108: how a target is kept
NormalizeTarget(target) == CollapseSlashes(CollapseTrailingStars(target))

NormalizeTargets(targets) ==
    [k \in 1..Len(targets) |-> NormalizeTarget(targets[k])]

\* obj[key] = value on an object: a key that is there keeps its place
ObjectSet(obj, key, value) ==
    IF \E k \in 1..Len(obj) : obj[k].alias = key
    THEN [k \in 1..Len(obj) |->
             IF obj[k].alias = key THEN [alias |-> key, targets |-> value]
             ELSE obj[k]]
    ELSE Append(obj, [alias |-> key, targets |-> value])

\* lines 20-29
RECURSIVE normalizeAliasMap(_, _)
normalizeAliasMap(map, normalized) ==
    IF map = << >> THEN normalized
    ELSE normalizeAliasMap(
             Tail(map),
             ObjectSet(normalized, CollapseTrailingStars(Head(map).alias),
                       NormalizeTargets(Head(map).targets)))

\* lines 72-77: the comparator of the sort
CompareByLengthOnly(a, b) == Len(b) - Len(a)

\* the comparator with the shorter pattern first in its class
CompareShorterFirst(a, b) ==
    LET aIsGlob == isGlobPattern(a)
        bIsGlob == isGlobPattern(b)
    IN IF aIsGlob # bIsGlob THEN (IF aIsGlob THEN 1 ELSE -1)
       ELSE Len(a) - Len(b)

CompareAliases(a, b) ==
    LET aIsGlob == isGlobPattern(a)
        bIsGlob == isGlobPattern(b)
    IN IF aIsGlob # bIsGlob THEN (IF aIsGlob THEN 1 ELSE -1)
       ELSE Len(b) - Len(a)

\* Array.prototype.sort is stable: an entry goes before the first one that
\* the comparator puts after it
RECURSIVE SortAliases(_)
SortAliases(entries) ==
    IF entries = << >> THEN << >>
    ELSE LET n == Len(entries)
             x == entries[n]
             sorted == SortAliases(SubSeq(entries, 1, n - 1))
             later == {k \in 1..Len(sorted) :
                          CompareAliases(x.alias, sorted[k].alias) < 0}
             at == IF later = {} THEN Len(sorted) + 1
                   ELSE CHOOSE k \in later : \A m \in later : k <= m
         IN SubSeq(sorted, 1, at - 1) \o <<x>> \o SubSeq(sorted, at, Len(sorted))

\* lines 79-93: the first alias of the sorted list that matches; 0 when none
\* does, -1 when compiling a glob alias on the way throws
FirstMatchTriesOne(sorted, normalizedPath, k) ==
    IF k > Len(sorted) THEN 0
    ELSE LET alias == sorted[k].alias
         IN IF isGlobPattern(alias)
            THEN IF ~Compiles(alias) THEN -1
                 ELSE IF matchGlobPattern(normalizedPath, alias) THEN k ELSE 0
            ELSE IF StartsWith(normalizedPath, alias) THEN k ELSE 0

RECURSIVE FirstMatch(_, _, _)
FirstMatch(sorted, normalizedPath, k) ==
    IF k > Len(sorted) THEN 0
    ELSE LET alias == sorted[k].alias
         IN IF isGlobPattern(alias)
            THEN IF ~Compiles(alias) THEN -1
                 ELSE IF matchGlobPattern(normalizedPath, alias) THEN k
                 ELSE FirstMatch(sorted, normalizedPath, k + 1)
            ELSE IF StartsWith(normalizedPath, alias) THEN k
                 ELSE FirstMatch(sorted, normalizedPath, k + 1)

\* lines 63-101
resolvePath(map, importPath) ==
    LET normalizedPath == CollapseSlashes(importPath)
        sortedAliases == SortAliases(map)
        hit == FirstMatch(sortedAliases, normalizedPath, 1)
    IN IF hit = -1
       THEN [threw |-> TRUE, resolved |-> << >>, matched |-> FALSE,
             originalPath |-> importPath, usedAlias |-> << >>]
       ELSE IF hit = 0
       THEN [threw |-> FALSE, resolved |-> <<normalizedPath>>, matched |-> FALSE,
             originalPath |-> importPath, usedAlias |-> << >>]
       ELSE LET alias == sortedAliases[hit].alias
                targets == sortedAliases[hit].targets
            IN [threw |-> FALSE,
                resolved |-> [k \in 1..Len(targets) |->
                                 replaceAlias(normalizedPath, alias, targets[k])],
                matched |-> TRUE,
                originalPath |-> importPath,
                usedAlias |-> <<alias>>]

----------------------------------------------------------------------------
(***************************************************************************)
(* A PathResolver in use: it is constructed from a paths map, aliases are  *)
(* added, paths are resolved.                                              *)
(***************************************************************************)
\* the entries of the paths map given to the constructor
MaxConfigured == 2
\* the addAlias calls made on one resolver
MaxAdded == 1

Entry(alias, targets) == [alias |-> alias, targets |-> targets]

\* the aliases a caller configures, as written in its tsconfig
ConfigEntries ==
    { Entry(<<"@">>, << <<"s">> >>),
      Entry(<<"@", "a">>, << <<"b">> >>),
      Entry(<<"@">>, << <<"$", "&">> >>),
      Entry(<<"@", "*">>, << <<"s", "/", "*">>, <<"t", "*">> >>),
      Entry(<<"@", "a", "*", "*">>, << <<"b", "/", "/", "*", "*">> >>),
      Entry(<<"@", "?", "b">>, << <<"t">> >>),
      Entry(<<"@", "e">>, << >>),
      Entry(<<"@", "[">>, << <<"t">> >>),
      Entry(<<"@", "{", "a", ",", "b", "}">>, << <<"t">> >>),
      Entry(<<"b", "/", "/">>, << <<"t", "/">> >>) }

\* the aliases a caller adds later: one whose key may be there already, one
\* with stars and separators to normalize, one with separators in the key
AddedEntries ==
    { Entry(<<"@">>, << <<"s">> >>),
      Entry(<<"@", "a", "*", "*">>, << <<"b", "/", "/", "*", "*">> >>),
      Entry(<<"b", "/", "/">>, << <<"t", "/">> >>) }

\* the specifiers that are resolved
Specifiers ==
    { <<"@">>, <<"@", "a">>, <<"@", "a", "b">>, <<"@", "b">>, <<"@", "e">>,
      <<"b", "a">>, <<"b", "/", "/", "a">> }

\* a paths map is an object: no key twice
PathMaps(n) ==
    {m \in UNION {[1..k -> ConfigEntries] : k \in 0..n} :
        \A j, k \in 1..Len(m) : m[j].alias = m[k].alias => j = k}

\* lines 16-18
ResolverInit ==
    /\ \E map \in PathMaps(MaxConfigured) : aliasMap = normalizeAliasMap(map, << >>)
    /\ added = 0
    /\ rCall = [called |-> FALSE]
    \* no import tree is built and no file is located
    /\ workspaceRoot = TRUE
    /\ depthArg = 1
    /\ processedPaths = {}
    /\ insertionOrder = << >>
    /\ stack = << >>
    /\ disk = [f \in Paths |-> Unknown]
    /\ status = "idle"
    /\ result = << >>
    /\ tsconfig = << >>
    /\ locating = << >>
    /\ fileSystem = {}
    /\ located = [state |-> "idle"]
    /\ sourceCode = << >>
    /\ importInfo = << >>
    /\ seenDeclarations = {}
    /\ calls = "idle"
    /\ firstOutput = << >>
    /\ lastOutput = NoOutput
    /\ clipboard = [written |-> FALSE]
    /\ lineCount = 1
    /\ window = NoWindow

\* lines 104-109
addAlias(alias, targets) ==
    /\ aliasMap' = ObjectSet(aliasMap, CollapseTrailingStars(alias),
                             NormalizeTargets(targets))
    /\ rCall' = [called |-> FALSE]

AddAlias ==
    /\ added < MaxAdded
    /\ added' = added + 1
    /\ \E e \in AddedEntries : addAlias(e.alias, e.targets)

\* lines 63-101
ResolvePath ==
    /\ \E importPath \in Specifiers :
          rCall' = [called |-> TRUE, importPath |-> importPath,
                    out |-> resolvePath(aliasMap, importPath)]
    /\ UNCHANGED <<aliasMap, added>>

ResolverOnly == UNCHANGED <<treeVars, locatorVars, extractorVars, copyVars>>

ResolverNext ==
    \/ AddAlias /\ ResolverOnly
    \/ ResolvePath /\ ResolverOnly

ResolverSpec == ResolverInit /\ [][ResolverNext]_vars

----------------------------------------------------------------------------
(***************************************************************************)
(* The file path locator: resolveAliasPath and tryExtensions,              *)
(* src/src/utils/pathResolution.ts:25-68, and the choice between them for  *)
(* one import, lines 89-103.  A path is written as what follows the        *)
(* workspace root; the names src, app, page, index and the extensions are  *)
(* single characters of the model.                                         *)
(***************************************************************************)
\* the files that exist among the probed ones
MaxExisting == 2

\* s.split("/")
RECURSIVE SplitSlash(_, _)
SplitSlash(s, current) ==
    IF s = << >> THEN <<current>>
    ELSE IF s[1] = "/" THEN <<current>> \o SplitSlash(Tail(s), << >>)
    ELSE SplitSlash(Tail(s), Append(current, s[1]))

\* path.normalize on the segments: "" and "." go, ".." takes the segment
\* before it away (or stays, above the workspace root)
RECURSIVE NormalSegments(_, _)
NormalSegments(segs, out) ==
    IF segs = << >> THEN out
    ELSE LET seg == Head(segs)
         IN IF seg = << >> \/ seg = <<".">>
            THEN NormalSegments(Tail(segs), out)
            ELSE IF seg = <<".", ".">>
            THEN IF out # << >> /\ out[Len(out)] # <<".", ".">>
                 THEN NormalSegments(Tail(segs), SubSeq(out, 1, Len(out) - 1))
                 ELSE NormalSegments(Tail(segs), Append(out, seg))
            ELSE NormalSegments(Tail(segs), Append(out, seg))

RECURSIVE SlashBefore(_)
SlashBefore(segs) ==
    IF segs = << >> THEN << >>
    ELSE <<"/">> \o Head(segs) \o SlashBefore(Tail(segs))

\* path.join(workspaceRoot, ...parts): the parts that are not empty joined
\* by "/" and normalized; a "/" at the end stays
RECURSIVE AllSegments(_)
AllSegments(parts) ==
    IF parts = << >> THEN << >>
    ELSE SplitSlash(Head(parts), << >>) \o AllSegments(Tail(parts))

JoinFromRoot(parts) ==
    LET given == SelectSeq(parts, LAMBDA part : part # << >>)
        last == IF given = << >> THEN << >> ELSE given[Len(given)]
        trailing == last # << >> /\ last[Len(last)] = "/"
    IN SlashBefore(NormalSegments(AllSegments(given), << >>))
         \o (IF trailing THEN <<"/">> ELSE << >>)

\* line 56
ExtensionsJsFirst == <<".js", ".jsx", ".ts", ".tsx">>

Extensions == <<".ts", ".tsx", ".js", ".jsx">>

\* line 34
possibleBaseDirs == << << >>, <<"src">>, <<"app">> >>

\* lines 38-42
possiblePaths(baseDir, target) ==
    << JoinFromRoot(<<baseDir, target>>),
       JoinFromRoot(<<baseDir, target, <<"page">> >>),
       JoinFromRoot(<<baseDir, target, <<"index">> >>) >>

\* lines 55-68: the first extension whose path exists, from the k-th on
RECURSIVE tryExtensions(_, _, _)
tryExtensions(basePath, files, k) ==
    IF k > Len(Extensions) THEN [found |-> FALSE]
    ELSE LET fullPath == Append(basePath, Extensions[k])
         IN IF fullPath \in files THEN [found |-> TRUE, path |-> fullPath]
            ELSE tryExtensions(basePath, files, k + 1)

\* lines 44-49: the first of the possible paths that an extension finds
RECURSIVE tryPossiblePaths(_, _, _)
tryPossiblePaths(paths, files, k) ==
    IF k > Len(paths) THEN [found |-> FALSE]
    ELSE LET tryExtensionResult == tryExtensions(paths[k], files, 1)
         IN IF tryExtensionResult.found THEN tryExtensionResult
            ELSE tryPossiblePaths(paths, files, k + 1)

\* lines 36-50: the base directories, from the k-th on
RECURSIVE tryBaseDirs(_, _, _)
tryBaseDirs(target, files, k) ==
    IF k > Len(possibleBaseDirs) THEN [found |-> FALSE]
    ELSE LET hit == tryPossiblePaths(possiblePaths(possibleBaseDirs[k], target),
                                     files, 1)
         IN IF hit.found THEN hit ELSE tryBaseDirs(target, files, k + 1)

\* lines 25-53.  resolved[0] of an empty list is undefined and path.join
\* throws a TypeError on it; a throw of resolvePath goes through as well.
resolveAliasPath(importPath, paths, files) ==
    LET out == resolvePath(normalizeAliasMap(paths, << >>), importPath)
    IN IF out.threw \/ out.resolved = << >>
       THEN [state |-> "threw"]
       ELSE LET hit == tryBaseDirs(out.resolved[1], files, 1)
            IN IF hit.found THEN [state |-> "path", path |-> hit.path]
               ELSE [state |-> "null"]

\* path.dirname(currentFilePath), written as what follows the workspace root
CurrentDir == <<"d">>

\* lines 98-101: path.resolve(dir, source) joins and normalizes, and leaves
\* no "/" at the end
pathResolve(dir, source) ==
    SlashBefore(NormalSegments(AllSegments(<<dir, source>>), << >>))

\* the probe of a relative specifier with the variants of lines 38-42
tryExtensionsAndVariants(absolutePath, files) ==
    tryPossiblePaths(possiblePaths(<< >>, SubSeq(absolutePath, 2, Len(absolutePath))),
                     files, 1)

\* line 102
tryExtensionsOnly(absolutePath, files) == tryExtensions(absolutePath, files, 1)

\* lines 89-103: resolvedPath for one import of the file in CurrentDir
resolvedPathOf(source, paths, files) ==
    IF StartsWith(source, <<"@">>)
    THEN resolveAliasPath(source, paths, files)
    ELSE IF StartsWith(source, <<".">>)
    THEN LET hit == tryExtensionsOnly(pathResolve(CurrentDir, source), files)
         IN IF hit.found THEN [state |-> "path", path |-> hit.path]
            ELSE [state |-> "null"]
    ELSE [state |-> "null"]

\* every path that is probed for one target
ProbesOf(target) ==
    {Append(possiblePaths(possibleBaseDirs[b], target)[p], Extensions[e]) :
        b \in 1..3, p \in 1..3, e \in 1..4}

\* the paths maps of the tsconfig files; loadTSConfig gives {} when the file
\* is absent or unreadable, and then paths is {}
LocatorConfigs ==
    { << >>,
      << Entry(<<"@", "*">>, << <<"src", "/", "*">>, <<"t", "*">> >>),
         Entry(<<".", "/", "*">>, << <<"t", "/", "*">> >>) >>,
      << Entry(<<"@", "*">>, << <<".", "/", "*">> >>),
         Entry(<<"@", "e">>, << >>) >> }

LocatorSpecifiers == { <<"@", "e">>, <<".", "/", "e">> }

RECURSIVE SubsetsUpTo(_, _)
SubsetsUpTo(S, n) ==
    IF n = 0 THEN {{}}
    ELSE LET smaller == SubsetsUpTo(S, n - 1)
         IN smaller \cup {F \cup {x} : F \in smaller, x \in S}

\* what the alias resolver gives for the call
LocatorTargets ==
    resolvePath(normalizeAliasMap(tsconfig, << >>), locating).resolved

\* the files that may exist: every probe path of the first target, and of
\* a later target the paths of its first probe
Candidates(resolved) ==
    IF resolved = << >> THEN {}
    ELSE ProbesOf(resolved[1])
           \cup UNION {{Append(JoinFromRoot(<<resolved[k]>>), Extensions[e]) :
                          e \in 1..4} : k \in 2..Len(resolved)}

\* the files that may exist when a relative specifier is located: the
\* joined path with each extension, and with .ts its variants under src,
\* with /page and /index, the first target the alias resolver would give,
\* and the specifier joined to the workspace root
RelativeCandidates ==
    LET absolutePath == pathResolve(CurrentDir, locating)
        inside == SubSeq(absolutePath, 2, Len(absolutePath))
    IN {Append(absolutePath, Extensions[e]) : e \in 1..4}
         \cup {Append(JoinFromRoot(<<(<<"src">>), inside>>), ".ts"),
               Append(JoinFromRoot(<<inside, (<<"page">>)>>), ".ts"),
               Append(JoinFromRoot(<<inside, (<<"index">>)>>), ".ts"),
               Append(JoinFromRoot(<<locating>>), ".ts")}
         \cup {Append(JoinFromRoot(<<LocatorTargets[k]>>), ".ts") :
                  k \in 1..Len(LocatorTargets)}

LocatorInit ==
    /\ tsconfig \in LocatorConfigs
    /\ locating \in LocatorSpecifiers
    /\ fileSystem \in SubsetsUpTo(IF StartsWith(locating, <<".">>)
                                  THEN RelativeCandidates
                                  ELSE Candidates(LocatorTargets), MaxExisting)
    /\ located = [state |-> "pending"]
    \* no import tree is built and no resolver is looked at on its own
    /\ workspaceRoot = TRUE
    /\ depthArg = 1
    /\ processedPaths = {}
    /\ insertionOrder = << >>
    /\ stack = << >>
    /\ disk = [f \in Paths |-> Unknown]
    /\ status = "idle"
    /\ result = << >>
    /\ aliasMap = << >>
    /\ added = 0
    /\ rCall = [called |-> FALSE]
    /\ sourceCode = << >>
    /\ importInfo = << >>
    /\ seenDeclarations = {}
    /\ calls = "idle"
    /\ firstOutput = << >>
    /\ lastOutput = NoOutput
    /\ clipboard = [written |-> FALSE]
    /\ lineCount = 1
    /\ window = NoWindow

\* lines 89-103 with 25-68: a path or null is returned
LocateReturns ==
    /\ located.state = "pending"
    /\ LET out == resolvedPathOf(locating, tsconfig, fileSystem)
       IN /\ out.state # "threw"
          /\ located' = out
    /\ UNCHANGED <<tsconfig, locating, fileSystem>>

\* lines 37-39: the call ends in an exception
LocateThrows ==
    /\ located.state = "pending"
    /\ LET out == resolvedPathOf(locating, tsconfig, fileSystem)
       IN /\ out.state = "threw"
          /\ located' = out
    /\ UNCHANGED <<tsconfig, locating, fileSystem>>

LocatorOnly == UNCHANGED <<treeVars, resolverVars, extractorVars, copyVars>>

LocatorNext ==
    \/ LocateReturns /\ LocatorOnly
    \/ LocateThrows /\ LocatorOnly

LocatorSpec == LocatorInit /\ [][LocatorNext]_vars

----------------------------------------------------------------------------
(***************************************************************************)
(* The declaration extractor, src/src/services/CodeExtractor.ts.  A line   *)
(* is the sequence of its tokens: words, punctuation, and " " for the      *)
(* white space a line starts with; two words that follow each other have   *)
(* one blank between them.  A text is the sequence of its lines, and a     *)
(* joined text has the token "\n" between two lines.                       *)
(***************************************************************************)
\* the lines of the texts that are scanned
MaxLines == 3

LConst(n) == <<"const", n, "=", "1", ";">>
LFunction(n) == <<"export", "function", n, "(", ")", "{">>
LDefaultFunction(n) == <<"export", "default", "function", n, "(", ")", "{">>
LClose == <<"}">>
LReturn == <<" ", "return", "1", ";">>
LBlank == << >>
\* a construct with braces that the declaration pattern does not know
LNamespace(n) == <<"namespace", n, "{">>
\* a line that starts with white space
Indented(line) == <<" ">> \o line

SourceLines ==
    { LConst("Foo"), LConst("default"), LFunction("Bar"),
      LDefaultFunction("Foo"), LClose, LReturn, LBlank,
      LNamespace("N"), Indented(LDefaultFunction("Foo")) }

\* sourceCode.split("\n") has at least one line
SourceTexts(n) == UNION {[1..k -> SourceLines] : k \in 1..n}

\* the bindings parseImports makes (importParser.ts:16-40); a binding
\* without alias has alias undefined, which equals no name
NoAlias == ""
ImportSpecifier(imported, local) ==
    [name |-> imported, alias |-> local, isDefault |-> FALSE, isNamespace |-> FALSE]
ImportDefaultSpecifier(local) ==
    [name |-> local, alias |-> NoAlias, isDefault |-> TRUE, isNamespace |-> FALSE]
ImportNamespaceSpecifier(local) ==
    [name |-> local, alias |-> NoAlias, isDefault |-> FALSE, isNamespace |-> TRUE]

ImportRecords ==
    { << >>,
      <<ImportSpecifier("Foo", "Foo")>>,
      <<ImportSpecifier("Bar", "Foo")>>,
      <<ImportSpecifier("Foo", "Foo"), ImportSpecifier("Bar", "Bar")>>,
      <<ImportDefaultSpecifier("X")>>,
      <<ImportNamespaceSpecifier("ns")>> }

WhiteSpace == {" ", "\n"}

\* the tokens that are no run of [A-Za-z0-9_]
Punctuation == {" ", "\n", "{", "}", ";", "=", "(", ")"}

RECURSIVE DropLeading(_, _)
DropLeading(s, drop) ==
    IF s # << >> /\ Head(s) \in drop THEN DropLeading(Tail(s), drop) ELSE s

RECURSIVE DropTrailing(_, _)
DropTrailing(s, drop) ==
    IF s # << >> /\ s[Len(s)] \in drop
    THEN DropTrailing(SubSeq(s, 1, Len(s) - 1), drop)
    ELSE s

\* String.prototype.trim
Trim(s) == DropTrailing(DropLeading(s, WhiteSpace), WhiteSpace)

\* (line.match(/c/g) || []).length
CountOf(line, c) == Cardinality({k \in 1..Len(line) : line[k] = c})

\* lines 58-60: the name the declaration pattern captures, "" without match
NoMatch == ""
DeclarationKeywords == {"function", "class", "interface", "type", "const"}
Optional(line, k, word) ==
    IF k <= Len(line) /\ line[k] = word THEN k + 1 ELSE k
declarationMatch(line) ==
    LET k == Optional(line, Optional(line, Optional(line, 1, "export"),
                                     "default"), "async")
    IN IF /\ k + 1 <= Len(line)
          /\ line[k] \in DeclarationKeywords
          /\ line[k + 1] \notin Punctuation
       THEN line[k + 1]
       ELSE NoMatch

\* lines 102-110
isImportedInAnyRecord(name, info) == TRUE

isImportedInAny(name, info) ==
    \E k \in 1..Len(info) :
       \/ info[k].name = name
       \/ info[k].alias = name
       \/ (info[k].isDefault /\ name = "default")
       \/ info[k].isNamespace

\* currentDeclaration.join("\n")
RECURSIVE JoinLines(_)
JoinLines(lines) ==
    IF lines = << >> THEN << >>
    ELSE IF Len(lines) = 1 THEN lines[1]
    ELSE lines[1] \o <<"\n">> \o JoinLines(Tail(lines))

\* the white space a text starts with
RECURSIVE LeadingWhiteSpace(_)
LeadingWhiteSpace(s) ==
    IF s # << >> /\ Head(s) \in WhiteSpace
    THEN <<Head(s)>> \o LeadingWhiteSpace(Tail(s))
    ELSE << >>

\* line 96: content.replace(/\n\s*\n\s*\n/g, "\n\n")
RECURSIVE CollapseBlankLines(_)
CollapseBlankLines(s) ==
    IF s = << >> THEN << >>
    ELSE IF Head(s) # "\n" THEN <<Head(s)>> \o CollapseBlankLines(Tail(s))
    ELSE LET run == LeadingWhiteSpace(s)
             breaks == {k \in 1..Len(run) : run[k] = "\n"}
             last == CHOOSE k \in breaks : \A m \in breaks : m <= k
         IN IF Cardinality(breaks) >= 3
            THEN <<"\n", "\n">> \o CollapseBlankLines(SubSeq(s, last + 1, Len(s)))
            ELSE <<Head(s)>> \o CollapseBlankLines(Tail(s))

\* line 97: content.replace(/^export\s+default\s+/, "")
StripExportDefault(s) ==
    IF Len(s) >= 3 /\ s[1] = "export" /\ s[2] = "default"
    THEN DropLeading(SubSeq(s, 3, Len(s)), WhiteSpace)
    ELSE s

\* lines 95-100
formatDeclaration(content) ==
    <<"\n">> \o Trim(StripExportDefault(CollapseBlankLines(content))) \o <<"\n">>

\* lines 42-45 (location: { start: 0, end: 0 } in src/unnamed/part_003)
LocationZero(start, end) == [start |-> 0, end |-> 0]

Location(start, end) == [start |-> start, end |-> end]

\* line 39: extracted.push
PushEntryInFront(extracted, entry) == <<entry>> \o extracted

PushEntry(extracted, entry) == Append(extracted, entry)

\* lines 32-52; stores lists every call of it
storeCurrentDeclaration(st, endLine, info) ==
    LET keep == /\ st.currentName # NoMatch
                /\ st.currentName \notin st.seenDeclarations
                /\ isImportedInAny(st.currentName, info)
        entry == [content |-> formatDeclaration(JoinLines(st.currentDeclaration)),
                  name |-> st.currentName,
                  location |-> Location(st.startLine, endLine)]
    IN [st EXCEPT
          !.seenDeclarations = IF keep THEN @ \cup {st.currentName} ELSE @,
          !.extracted = IF keep THEN PushEntry(@, entry) ELSE @,
          !.stores = Append(@, [name |-> st.currentName, start |-> st.startLine,
                                end |-> endLine, kept |-> keep]),
          !.isCollecting = FALSE,
          !.currentDeclaration = << >>,
          !.currentName = NoMatch,
          !.bracketCount = 0]

\* lines 54-82, one pass of the loop for lines[i] (i counts from 0)
ScanLine(lines, i, st, info) ==
    LET line == Trim(lines[i + 1])
        name == declarationMatch(line)
        count == st.bracketCount + CountOf(line, "{") - CountOf(line, "}")
        pushed == [st EXCEPT !.currentDeclaration = Append(@, lines[i + 1]),
                             !.bracketCount = count]
    IN IF ~st.isCollecting /\ name # NoMatch
       THEN [st EXCEPT !.currentName = name,
                       !.isCollecting = TRUE,
                       !.startLine = i,
                       !.currentDeclaration = <<lines[i + 1]>>,
                       !.bracketCount = CountOf(line, "{") - CountOf(line, "}")]
       ELSE IF st.isCollecting
       THEN IF count = 0 /\ (CountOf(line, "}") > 0 \/ CountOf(line, ";") > 0)
            THEN storeCurrentDeclaration(pushed, i, info)
            ELSE pushed
       ELSE st

RECURSIVE ScanFrom(_, _, _, _)
ScanFrom(lines, i, st, info) ==
    IF i >= Len(lines) THEN st
    ELSE ScanFrom(lines, i + 1, ScanLine(lines, i, st, info), info)

\* lines 84-90 without the store of line 89
StillCollectingDiscarded(st, lines, info) ==
    [st EXCEPT !.diagnostics = Append(@, "Still collecting at end of file")]

\* lines 84-90, taken when isCollecting: console.error, then the store
StillCollectingAtEnd(st, lines, info) ==
    storeCurrentDeclaration(
        [st EXCEPT !.diagnostics = Append(@, "Still collecting at end of file")],
        Len(lines) - 1, info)

\* lines 19-93; collecting is isCollecting as line 84 reads it
findDeclarations(lines, info, seen) ==
    LET start == [extracted |-> << >>, seenDeclarations |-> seen,
                  stores |-> << >>, currentDeclaration |-> << >>,
                  isCollecting |-> FALSE, bracketCount |-> 0,
                  currentName |-> NoMatch, startLine |-> 0,
                  collecting |-> FALSE, diagnostics |-> << >>]
        st == ScanFrom(lines, 0, start, info)
    IN IF st.isCollecting
       THEN [StillCollectingAtEnd(st, lines, info) EXCEPT !.collecting = TRUE]
       ELSE st

\* what a call leaves to look at: the list it returns, the calls of
\* storeCurrentDeclaration, and what it wrote to the console
Output(st) ==
    [extracted |-> st.extracted, stores |-> st.stores,
     collecting |-> st.collecting, diagnostics |-> st.diagnostics]

\* line 10: this.seenDeclarations.clear()
ClearedKeepsNames(seen) == seen

Cleared(seen) == {}

\* lines 11-16 alone, the instance's set as the last call left it
extractWithoutClear(lines, info, seen) ==
    findDeclarations(lines, info, seen)

\* lines 6-17; with the bindings a list, findDeclarations does not throw.
\* The body holds no await: a call runs from line 10 to its return before
\* the caller gets the promise, so no step of another call comes in between.
extractImportedEntities(lines, info, seen) ==
    findDeclarations(lines, info, Cleared(seen))

\* another import record, for a call between two calls with importInfo
OtherImport ==
    IF importInfo = <<ImportNamespaceSpecifier("ns")>>
    THEN <<ImportSpecifier("Foo", "Foo")>>
    ELSE <<ImportNamespaceSpecifier("ns")>>

ExtractorInit ==
    /\ sourceCode \in SourceTexts(MaxLines)
    /\ importInfo \in ImportRecords
    /\ seenDeclarations = {}
    /\ calls = "fresh"
    /\ firstOutput = << >>
    /\ lastOutput = NoOutput
    /\ clipboard = [written |-> FALSE]
    /\ lineCount = 1
    /\ window = NoWindow
    \* no import tree is built, no resolver is looked at, no file is located
    /\ workspaceRoot = TRUE
    /\ depthArg = 1
    /\ processedPaths = {}
    /\ insertionOrder = << >>
    /\ stack = << >>
    /\ disk = [f \in Paths |-> Unknown]
    /\ status = "idle"
    /\ result = << >>
    /\ aliasMap = << >>
    /\ added = 0
    /\ rCall = [called |-> FALSE]
    /\ tsconfig = << >>
    /\ locating = << >>
    /\ fileSystem = {}
    /\ located = [state |-> "idle"]

\* extractor.extractImportedEntities(sourceCode, importInfo)
Extract ==
    /\ calls \in {"fresh", "once", "between"}
    /\ LET st == extractImportedEntities(sourceCode, importInfo, seenDeclarations)
       IN /\ seenDeclarations' = st.seenDeclarations
          /\ lastOutput' = Output(st)
          /\ firstOutput' = IF calls = "fresh" THEN st.extracted ELSE firstOutput
    /\ calls' = CASE calls = "fresh" -> "once"
                  [] calls = "once" -> "twice"
                  [] calls = "between" -> "again"
    /\ UNCHANGED <<sourceCode, importInfo>>

\* a call of the same instance with the same text and another import record
ExtractOther ==
    /\ calls = "once"
    /\ LET st == extractImportedEntities(sourceCode, OtherImport, seenDeclarations)
       IN /\ seenDeclarations' = st.seenDeclarations
          /\ lastOutput' = Output(st)
    /\ calls' = "between"
    /\ UNCHANGED <<sourceCode, importInfo, firstOutput>>

ExtractorOnly == UNCHANGED <<treeVars, resolverVars, locatorVars, copyVars>>

ExtractorNext ==
    \/ Extract /\ ExtractorOnly
    \/ ExtractOther /\ ExtractorOnly

ExtractorSpec == ExtractorInit /\ [][ExtractorNext]_vars

----------------------------------------------------------------------------
(***************************************************************************)
(* The copy command, src/src/extension.ts:11-195, with the file selector   *)
(* of QuickPickService (src/unnamed/part_000:115-242).  The text written   *)
(* to the clipboard is kept as the set of the files whose extracted        *)
(* declarations were put into it; the current file is always in the text.  *)
(***************************************************************************)
\* the import statements of the files of the workspaces the command runs in
CopyImport(first, probe) == ParsedImport([first |-> first, probe |-> probe])

\* the current file has up to two import statements, the files a and b at
\* most one, the file c none or no text that can be read
CopyDisks ==
    LET ofMain == {CopyImport(".", "a"), CopyImport(".", "b"), CopyImport("@", Throws)}
        mainLists == {<< >>} \cup {<<x>> : x \in ofMain}
                       \cup {<<x, y>> : x \in ofMain, y \in ofMain}
        aLists == {<< >>, <<CopyImport(".", "b")>>, <<CopyImport("@", "c")>>}
        bLists == {<< >>, <<CopyImport(".", "a")>>}
        cTexts == {Text(<< >>), Unreadable}
    IN {[f \in Paths |-> CASE f = RootFile -> Text(m)
                           [] f = "a" -> Text(la)
                           [] f = "b" -> Text(lb)
                           [] OTHER -> c] :
           m \in mainLists, la \in aLists, lb \in bLists, c \in cTexts}

\* part_000:58-92 and 100-113: the depths of the options
OptionDepths == {1, 2, 3}

\* extension.ts:112-145 and part_000:189-234: processImportTree over a list
\* of trees; a file that cannot be opened is left out with its nested
\* imports and is not marked
RECURSIVE processImportTrees(_, _)
processImportTrees(trees, processedFiles) ==
    IF trees = << >> THEN processedFiles
    ELSE LET importTree == Head(trees)
             p == importTree.importInfo.resolvedPath
             after ==
                 IF p \in processedFiles \/ disk[p].state # "text"
                 THEN processedFiles
                 ELSE processImportTrees(importTree.nestedImports,
                                         processedFiles \cup {p})
         IN processImportTrees(Tail(trees), after)

\* the files whose extracted declarations copyAllFiles appends, and the
\* files prepareFileItems makes an item of
ImportedFiles == processImportTrees(result, {RootFile}) \ {RootFile}

\* part_000 SIZE_LIMITS.WARNING
WARNING == 2000

\* mainFile.lineCount: under the limit, at it and over it
MainLineCounts == {WARNING - 2, WARNING - 1, WARNING, WARNING + 1}

\* extension.ts:125-128, part_000:210-214: the lines of the code extracted
\* from an imported file; here each file gives one declaration of one line
ImportedLineCount(f) == 1

\* extension.ts:111, 131: totalLines after the imported files
RECURSIVE SumImportedLines(_)
SumImportedLines(S) ==
    IF S = {} THEN 0
    ELSE LET f == CHOOSE x \in S : TRUE
         IN ImportedLineCount(f) + SumImportedLines(S \ {f})

\* extension.ts:173-185: the loop over the selected items
RECURSIVE SelectedLoop(_, _)
SelectedLoop(files, st) ==
    IF files = << >> THEN st
    ELSE LET file == Head(files)
         IN SelectedLoop(Tail(files),
               IF file \in st.processedFiles THEN st
               ELSE [processedFiles |-> st.processedFiles \cup {file},
                     totalLines |-> st.totalLines +
                        (IF file # RootFile THEN ImportedLineCount(file) ELSE 0)])

\* part_000:164: up to the limit no warning is shown
NeedsWarningNever(totalLines) == FALSE

NeedsWarning(totalLines) == ~(totalLines <= WARNING)

\* part_000:168-172: what showWarningMessage gives: a button, or undefined
\* when the warning is dismissed
Answers == {"Copy Anyway", "Cancel", "undefined"}

\* part_000:174
Proceeds(proceed) == proceed = "Copy Anyway"

\* part_000:121, 129-130: what the selection can be: items of the selector,
\* none of them twice
Selections(items) ==
    UNION {{q \in [1..n -> items] : \A i, j \in 1..n : q[i] = q[j] => i = j} :
              n \in 0..Cardinality(items)}

\* the values showFileSelector's promise is resolved with
Settled(files) == [state |-> "files", files |-> files]

Undefined == [state |-> "undefined", files |-> << >>]

\* part_000:137-157: a promise is settled by the first call of resolve
resolveLastWins(promise, value) == value

resolve(promise, value) == IF promise.state = "pending" THEN value ELSE promise

CopyInit ==
    /\ workspaceRoot \in BOOLEAN
    /\ depthArg \in OptionDepths
    /\ processedPaths = {}
    /\ insertionOrder = << >>
    /\ disk \in CopyDisks
    /\ stack = <<Frame(RootFile, disk[RootFile].imports, depthArg)>>
    /\ status = "running"
    /\ result = << >>
    /\ clipboard = [written |-> FALSE]
    /\ lineCount \in MainLineCounts
    /\ window = NoWindow
    \* no resolver is looked at, no file is located, nothing is extracted on
    \* its own
    /\ aliasMap = << >>
    /\ added = 0
    /\ rCall = [called |-> FALSE]
    /\ tsconfig = << >>
    /\ locating = << >>
    /\ fileSystem = {}
    /\ located = [state |-> "idle"]
    /\ sourceCode = << >>
    /\ importInfo = << >>
    /\ seenDeclarations = {}
    /\ calls = "idle"
    /\ firstOutput = << >>
    /\ lastOutput = NoOutput

\* extension.ts:61-66: the option "current", after the resolution of line 25
CopyCurrentFile ==
    /\ status = "returned"
    /\ depthArg = 1
    /\ clipboard' = [written |-> TRUE, option |-> "current", files |-> {}]
    /\ window' = [window EXCEPT !.option = "current", !.totalLines = lineCount,
                                !.information = TRUE]
    /\ status' = "copied"
    /\ UNCHANGED <<workspaceRoot, depthArg, processedPaths, insertionOrder, stack, disk,
                   result, lineCount>>

\* extension.ts:151-159 and 187-194 with part_000:163-172: the call of
\* confirmLargeFileOperation and what follows it. Up to the limit it returns
\* true at once, the text is written and the notification shown; over the
\* limit the warning is shown and the command waits for the answer.
ConfirmThenCopy(option, files, totalLines) ==
    IF NeedsWarning(totalLines)
    THEN /\ window' = [window EXCEPT !.option = option, !.files = files,
                                     !.totalLines = totalLines,
                                     !.warning = "shown"]
         /\ status' = "confirming"
         /\ clipboard' = clipboard
    ELSE /\ window' = [window EXCEPT !.option = option, !.files = files,
                                     !.totalLines = totalLines,
                                     !.warning = "skipped",
                                     !.information = TRUE]
         /\ status' = "copied"
         /\ clipboard' = [written |-> TRUE, option |-> option, files |-> files]

\* extension.ts:68-77, 101-153: an option "all" with its depth, up to the
\* call of confirmLargeFileOperation
CopyAllFiles ==
    /\ status = "returned"
    /\ depthArg \in OptionDepths
    /\ ConfirmThenCopy("all", ImportedFiles,
                       lineCount + SumImportedLines(ImportedFiles))
    /\ UNCHANGED <<workspaceRoot, depthArg, processedPaths, insertionOrder, stack, disk,
                   result, lineCount>>

\* part_000:168-174, extension.ts:151-159 and 187-194: the warning is
\* answered with one of its buttons or dismissed
AnswerWarning ==
    /\ status = "confirming"
    /\ \E proceed \in Answers :
          /\ window' = [window EXCEPT !.warning = proceed,
                                      !.information = Proceeds(proceed)]
          /\ clipboard' = IF Proceeds(proceed)
                          THEN [written |-> TRUE, option |-> window.option,
                                files |-> window.files]
                          ELSE clipboard
          /\ status' = IF Proceeds(proceed) THEN "copied" ELSE "cancelled"
    /\ UNCHANGED <<workspaceRoot, depthArg, processedPaths, insertionOrder, stack, disk,
                   result, lineCount>>

\* extension.ts:79-88, 167-170, part_000:119-128, 137, 157: the option
\* "selected": the selector is shown with an item for each imported file
ShowFileSelector ==
    /\ status = "returned"
    /\ depthArg \in OptionDepths
    /\ window' = [window EXCEPT !.option = "selected", !.selector = "shown",
                                !.selectedFiles = << >>]
    /\ status' = "selecting"
    /\ UNCHANGED <<workspaceRoot, depthArg, processedPaths, insertionOrder, stack, disk,
                   result, clipboard, lineCount>>

\* part_000:129-135: onDidChangeSelection
OnDidChangeSelection ==
    /\ window.selector = "shown"
    /\ \E items \in Selections(ImportedFiles) :
          /\ items # window.selectedFiles
          /\ window' = [window EXCEPT !.selectedFiles = items]
    /\ UNCHANGED <<treeVars, clipboard, lineCount>>

\* part_000:138-155: onDidAccept resolves with the main file and the
\* selection, then hides the selector
OnDidAccept ==
    /\ window.selector = "shown"
    /\ window' = [window EXCEPT
          !.promise = resolve(@, Settled(<<RootFile>> \o window.selectedFiles)),
          !.accepted = TRUE,
          !.selector = "hiding"]
    /\ UNCHANGED <<treeVars, clipboard, lineCount>>

\* part_000:156: onDidHide, after quickPick.hide() of line 154 or after the
\* user left the selector
OnDidHide ==
    /\ window.selector \in {"shown", "hiding"}
    /\ window' = [window EXCEPT !.promise = resolve(@, Undefined),
                                !.selector = "hidden"]
    /\ UNCHANGED <<treeVars, clipboard, lineCount>>

\* extension.ts:171-194: copySelectedFiles after showFileSelector has
\* settled, up to the call of confirmLargeFileOperation
CopySelectedFiles ==
    /\ status = "selecting"
    /\ window.promise.state # "pending"
    /\ LET selectedFiles == window.promise
       IN IF selectedFiles.state = "undefined" \/ Len(selectedFiles.files) = 0
          THEN /\ status' = "cancelled"
               /\ UNCHANGED <<clipboard, window>>
          ELSE LET st == SelectedLoop(selectedFiles.files,
                            [processedFiles |-> {RootFile},
                             totalLines |-> lineCount])
               IN ConfirmThenCopy("selected", st.processedFiles \ {RootFile},
                                  st.totalLines)
    /\ UNCHANGED <<workspaceRoot, depthArg, processedPaths, insertionOrder, stack, disk,
                   result, lineCount>>

CopyOnly == UNCHANGED <<resolverVars, locatorVars, extractorVars>>

CopyNext ==
    \/ TreeNext
    \/ CopyCurrentFile /\ CopyOnly
    \/ CopyAllFiles /\ CopyOnly
    \/ AnswerWarning /\ CopyOnly
    \/ ShowFileSelector /\ CopyOnly
    \/ OnDidChangeSelection /\ CopyOnly
    \/ OnDidAccept /\ CopyOnly
    \/ OnDidHide /\ CopyOnly
    \/ CopySelectedFiles /\ CopyOnly

CopySpec == CopyInit /\ [][CopyNext]_vars

----------------------------------------------------------------------------
(***************************************************************************)
(* The forest as a list of its nodes, each with its hop count from the     *)
(* root file and the resolved paths of its ancestors.                      *)
(***************************************************************************)
RECURSIVE NodesOf(_, _, _)
NodesOf(trees, hop, anc) ==
    IF trees = << >> THEN << >>
    ELSE LET t == Head(trees)
             p == t.importInfo.resolvedPath
         IN <<[path |-> p, hop |-> hop, hasNested |-> t.hasNested,
               ancestors |-> anc, first |-> t.importInfo.source.first]>>
              \o NodesOf(t.nestedImports, hop + 1, anc \cup {p})
              \o NodesOf(Tail(trees), hop, anc)

ResultNodes == NodesOf(result, 1, {})

Returned == status = "returned"

\* the imports of activation k that the loop has gone past
Past(k) == IF k = Len(stack) THEN stack[k].i - 1 ELSE stack[k].i

\* C1: in the returned forest no two nodes have the same resolvedPath, no
\* node has the resolvedPath of one of its ancestors, and no node is the
\* root file.
C1_NoPathTwice ==
    Returned =>
        LET ns == ResultNodes
        IN /\ \A j, k \in 1..Len(ns) : ns[j].path = ns[k].path => j = k
           /\ \A j \in 1..Len(ns) : ns[j].path \notin ns[j].ancestors
           /\ \A j \in 1..Len(ns) : ns[j].path # RootFile

\* two different files import the same target, one a file that imports itself
\* or its importer, and the call has returned
C1_Witness ==
    /\ Returned
    /\ \E f \in Paths \ {RootFile} :
          /\ disk[f].state = "text"
          /\ \E j \in 1..Len(disk[f].imports), k \in 1..Len(disk[RootFile].imports) :
                /\ disk[f].imports[j].source = disk[RootFile].imports[k].source
                /\ disk[f].imports[j].source.probe \in Paths \ {RootFile}
    /\ Len(ResultNodes) >= 2

\* C2: the call ends, and with a workspace root it ends by returning.
C2_Terminates ==
    /\ <>(status # "running")
    /\ workspaceRoot => <>Returned

\* a cycle of two files (a imports b, b imports a) was walked and the call
\* has returned
C2_Witness ==
    /\ Returned
    /\ \E f, g \in Paths \ {RootFile} :
          /\ f # g
          /\ disk[f].state = "text" /\ disk[g].state = "text"
          /\ \E j \in 1..Len(disk[f].imports) : disk[f].imports[j].source.probe = g
          /\ \E j \in 1..Len(disk[g].imports) : disk[g].imports[j].source.probe = f

\* C3: every node is at most maxDepth hops from the root file, the nodes at
\* hop maxDepth carry no nestedImports, and with maxDepth = 1 no node does.
C3_DepthCeiling ==
    Returned =>
        LET ns == ResultNodes
        IN \A j \in 1..Len(ns) :
              /\ ns[j].hop <= depthArg
              /\ ns[j].hop = depthArg => ~ns[j].hasNested
              /\ depthArg = 1 => ~ns[j].hasNested

\* a node at hop maxDepth >= 2, below a node that carries nestedImports
C3_Witness ==
    /\ Returned
    /\ depthArg >= 2
    /\ \E j \in 1..Len(ResultNodes) :
          /\ ResultNodes[j].hop = depthArg
          /\ ~ResultNodes[j].hasNested

\* C4: a failing import is the only one omitted: the loop goes past every
\* import of the list, one at a time, and each import that resolves to a path
\* not processed when the loop reaches it, and whose file can be read when
\* nested imports are followed, is a node of the list's result; with a
\* workspace root the call does not throw.
C4_OnlyFailingImportOmitted ==
    /\ workspaceRoot => status # "threw"
    /\ \A k \in 1..Len(stack) :
          LET f == stack[k]
          IN /\ \A j \in 1..Len(f.imports) :
                   j <= Past(k) <=> f.handled[j].outcome # "pending"
             /\ Returned => Past(k) = Len(f.imports)
             /\ \A j \in 1..Past(k) :
                   LET r == ResolveImport(f.imports[j].source)
                   IN (/\ r \in Paths
                       /\ r \notin f.handled[j].seen
                       /\ f.maxDepth > 1 => disk[r].state = "text")
                      => /\ f.handled[j].outcome = "node"
                         /\ (j < f.i \/ k = Len(stack)) =>
                               \E t \in 1..Len(f.resolvedTrees) :
                                  f.resolvedTrees[t].importInfo.resolvedPath = r

\* a list of three imports whose middle one fails (unresolved, throwing or
\* unreadable) and whose first and last are nodes of the returned forest
C4_Witness ==
    /\ Returned
    /\ Len(Top.imports) = 3
    /\ Top.handled[1].outcome = "node"
    /\ Top.handled[2].outcome \in {"unresolved", "threw", "unreadable"}
    /\ Top.handled[3].outcome = "node"
    /\ Len(result) = 2

\* C5: no call of resolveImportPaths ends by raising an error to its caller.
C5_NeverThrows == status # "threw"

\* C10: every import whose specifier does not start with '.', for which the
\* alias resolver and the base directory probes find a file not yet
\* processed, is a node of the returned forest.
C10_NonRelativeResolved ==
    Returned =>
        \A j \in 1..Len(Top.imports) :
           LET src == Top.imports[j].source
           IN (/\ src.first # "."
               /\ src.probe \in Paths
               /\ src.probe \notin Top.handled[j].seen
               /\ Top.maxDepth > 1 => disk[src.probe].state = "text")
              => \E t \in 1..Len(result) :
                    result[t].importInfo.resolvedPath = src.probe

(***************************************************************************)
(* Claims about PathResolver                                               *)
(***************************************************************************)
Called == rCall.called

NormalizedSpecifier == CollapseSlashes(rCall.importPath)

AllCompile ==
    \A k \in 1..Len(aliasMap) :
        isGlobPattern(aliasMap[k].alias) => Compiles(aliasMap[k].alias)

LiteralMatches(path) ==
    \E k \in 1..Len(aliasMap) :
        /\ ~isGlobPattern(aliasMap[k].alias)
        /\ StartsWith(path, aliasMap[k].alias)

GlobMatches(path) ==
    \E k \in 1..Len(aliasMap) :
        /\ isGlobPattern(aliasMap[k].alias)
        /\ Compiles(aliasMap[k].alias)
        /\ matchGlobPattern(path, aliasMap[k].alias)

\* C6: on a resolver that holds the one literal alias a with the one target
\* t, resolving a + s gives matched = true and resolved = [t + s].
C6_LiteralPrefixExact ==
    (/\ Called
     /\ Len(aliasMap) = 1
     /\ ~isGlobPattern(aliasMap[1].alias)
     /\ Len(aliasMap[1].targets) = 1
     /\ StartsWith(rCall.importPath, aliasMap[1].alias))
    => LET a == aliasMap[1].alias
           t == aliasMap[1].targets[1]
           suffix == SubSeq(rCall.importPath, Len(a) + 1, Len(rCall.importPath))
       IN /\ rCall.out.matched
          /\ rCall.out.resolved = <<t \o suffix>>

\* C7: when a literal alias and a glob alias both match the specifier, the
\* alias used is a literal one (one that is a prefix of the specifier).
C7_LiteralOutranksGlob ==
    (/\ Called
     /\ LiteralMatches(NormalizedSpecifier)
     /\ GlobMatches(NormalizedSpecifier))
    => /\ ~rCall.out.threw
       /\ rCall.out.matched
       /\ Len(rCall.out.usedAlias) = 1
       /\ ~isGlobPattern(rCall.out.usedAlias[1])
       /\ StartsWith(NormalizedSpecifier, rCall.out.usedAlias[1])

\* a literal alias and a longer glob alias declared before it both match
C7_Witness ==
    /\ Called
    /\ \E g, l \in 1..Len(aliasMap) :
          /\ g < l
          /\ isGlobPattern(aliasMap[g].alias)
          /\ Compiles(aliasMap[g].alias)
          /\ matchGlobPattern(NormalizedSpecifier, aliasMap[g].alias)
          /\ ~isGlobPattern(aliasMap[l].alias)
          /\ StartsWith(NormalizedSpecifier, aliasMap[l].alias)
          /\ Len(aliasMap[g].alias) > Len(aliasMap[l].alias)
          /\ rCall.out.usedAlias = <<aliasMap[l].alias>>

ProbeRank(b, p, e) == (b - 1) * 12 + (p - 1) * 4 + e

ProbePath(target, b, p, e) ==
    LET dir == << << >>, <<"src">>, <<"app">> >>[b]
        suffix == << << >>, <<"page">>, <<"index">> >>[p]
        ext == <<".ts", ".tsx", ".js", ".jsx">>[e]
    IN Append(JoinFromRoot(<<dir, target, suffix>>), ext)

ProbeTriples == (1..3) \X (1..3) \X (1..4)

\* the probe paths of the first target, by their place in the order
ProbePaths == [x \in ProbeTriples |-> ProbePath(LocatorTargets[1], x[1], x[2], x[3])]

\* C9: for a specifier that is not relative (it goes to the alias resolver)
\* and with a first target from the alias resolver, the locator returns the
\* existing probe path that comes first in the order base directory (root,
\* src, app), suffix (bare, /page, /index), extension (.ts, .tsx, .js,
\* .jsx), all built from the first target, and null exactly when no probe
\* path exists.
C9_FirstExistingProbe ==
    (/\ located.state \notin {"pending", "idle"}
     /\ StartsWith(locating, <<"@">>)
     /\ LocatorTargets # << >>)
    => LET probe == ProbePaths
           existing == {x \in ProbeTriples : probe[x] \in fileSystem}
       IN /\ located.state # "threw"
          /\ located.state = "null" <=> existing = {}
          /\ located.state = "path" =>
                \E x \in existing :
                   /\ located.path = probe[x]
                   /\ \A y \in existing :
                         ProbeRank(x[1], x[2], x[3]) <= ProbeRank(y[1], y[2], y[3])

\* two probe paths exist, the later of them with the earlier extension, and
\* the alias resolver gave a second target
C9_Witness ==
    /\ located.state = "path"
    /\ StartsWith(locating, <<"@">>)
    /\ Len(LocatorTargets) = 2
    /\ LET probe == ProbePaths
       IN \E x, y \in ProbeTriples :
             /\ probe[x] \in fileSystem
             /\ probe[y] \in fileSystem
             /\ x[1] < y[1]
             /\ x[3] > y[3]
             /\ located.path = probe[x]

(***************************************************************************)
(* Claims about the declaration extractor                                  *)
(***************************************************************************)
\* the latest call was made with sourceCode and importInfo
Extracted == calls \in {"once", "twice", "again"}

Entries == lastOutput.extracted

EntryNames == {Entries[k].name : k \in 1..Len(Entries)}

HasNamespace == \E k \in 1..Len(importInfo) : importInfo[k].isNamespace

BoundNames == {importInfo[k].name : k \in 1..Len(importInfo)}

Aliases == {importInfo[k].alias : k \in 1..Len(importInfo)} \ {NoAlias}

\* the name declared by line j of the text (lines count from 1 here)
DeclaredAt(j) == declarationMatch(Trim(sourceCode[j]))

RECURSIVE BraceDepth(_, _, _)
\* opening minus closing braces of the lines from..to of the text
BraceDepth(lines, from, to) ==
    IF from > to THEN 0
    ELSE CountOf(lines[from], "{") - CountOf(lines[from], "}")
           + BraceDepth(lines, from + 1, to)

\* the lines that start a declaration outside all braces
TopLevelStarts ==
    {j \in 1..Len(sourceCode) :
        DeclaredAt(j) # NoMatch /\ BraceDepth(sourceCode, 1, j - 1) = 0}

EntriesNamed(n) == {k \in 1..Len(Entries) : Entries[k].name = n}

\* C11 as stated: without a namespace binding, every returned entry has the
\* bound name or the alias of some binding of the import record.
C11_OnlyBoundNamesOrAliases ==
    (Extracted /\ ~HasNamespace) => EntryNames \subseteq (BoundNames \cup Aliases)

\* C11 amended: without a namespace binding, every returned entry has the
\* bound name or the alias of some binding, or is named default while the
\* record has a default binding.
C11_OnlyReferencedNames ==
    (Extracted /\ ~HasNamespace)
    => \A n \in EntryNames :
          \/ n \in BoundNames \cup Aliases
          \/ n = "default" /\ \E k \in 1..Len(importInfo) : importInfo[k].isDefault

\* a declaration the record does not reference was finalized and left out,
\* and one it references by its alias only was returned
C11_Witness ==
    /\ Extracted
    /\ ~HasNamespace
    /\ \E k \in 1..Len(lastOutput.stores) :
          /\ ~lastOutput.stores[k].kept
          /\ lastOutput.stores[k].name \notin EntryNames
    /\ \E n \in EntryNames : n \in Aliases /\ n \notin BoundNames

\* C12: every top-level declaration whose name is the bound name of some
\* binding of the import record has exactly one entry in the result,
\* wherever it stands and whatever precedes it.
C12_ImportedDeclarationExtracted ==
    Extracted
    => \A j \in TopLevelStarts :
          DeclaredAt(j) \in BoundNames
          => Cardinality(EntriesNamed(DeclaredAt(j))) = 1

\* C13: no two returned entries have the same name, and the entry of a name
\* starts on the line of the first top-level declaration of that name.
C13_FirstOccurrenceKept ==
    Extracted
    => /\ \A k, m \in 1..Len(Entries) :
             Entries[k].name = Entries[m].name => k = m
       /\ \A k \in 1..Len(Entries) :
             LET same == {j \in TopLevelStarts : DeclaredAt(j) = Entries[k].name}
             IN same # {} => \A j \in same : Entries[k].location.start + 1 <= j

\* C14: with a namespace binding in the import record, every top-level
\* declaration of the text has one entry of its name in the result.
C14_NamespaceExtractsAll ==
    (Extracted /\ HasNamespace)
    => \A j \in TopLevelStarts : Cardinality(EntriesNamed(DeclaredAt(j))) = 1

\* C15: a second call of the same instance with the same text and the same
\* import record returns what the first returned, also when a call with
\* another record was made in between.
C15_SameOutputTwice ==
    calls \in {"twice", "again"} => lastOutput.extracted = firstOutput

\* the call in between kept the names that the first call had returned
C15_Witness ==
    /\ calls = "again"
    /\ firstOutput # << >>
    /\ ~HasNamespace
    /\ lastOutput.extracted = firstOutput

\* C16: with a default import as the only binding, whatever its local name,
\* a top-level declaration that is exported as default is extracted.
C16_DefaultExportExtracted ==
    (Extracted /\ Len(importInfo) = 1 /\ importInfo[1].isDefault)
    => \A j \in TopLevelStarts :
          (Len(sourceCode[j]) >= 2 /\ sourceCode[j][1] = "export"
             /\ sourceCode[j][2] = "default")
          => EntriesNamed(DeclaredAt(j)) # {}

\* the lines from start on (counted from 0) at which a declaration that
\* starts at start has its braces balanced and that hold "}" or ";"
ClosingLines(start) ==
    {j \in start..(Len(sourceCode) - 1) :
        /\ BraceDepth([m \in 1..Len(sourceCode) |-> Trim(sourceCode[m])],
                      start + 1, j + 1) = 0
        /\ (CountOf(sourceCode[j + 1], "}") > 0 \/ CountOf(sourceCode[j + 1], ";") > 0)}

\* C20: a declaration ends on the first line, its start line included, at
\* which the brace depth is 0 and which holds "}" or ";" (at the last line
\* when there is none), and its content is made of the lines from its
\* start to that line.
C20_EndsOnFirstClosingLine ==
    Extracted
    => /\ \A k \in 1..Len(lastOutput.stores) :
             LET d == lastOutput.stores[k]
                 closing == ClosingLines(d.start)
             IN IF closing = {} THEN d.end = Len(sourceCode) - 1
                ELSE \A j \in closing : d.end <= j
       /\ \A k \in 1..Len(Entries) :
             Entries[k].content =
                formatDeclaration(JoinLines(SubSeq(sourceCode,
                    Entries[k].location.start + 1, Entries[k].location.end + 1)))

(***************************************************************************)
(* Claims about the copy command                                           *)
(***************************************************************************)
\* the files the current file imports
DirectImports ==
    {ResolveImport(disk[RootFile].imports[k].source) :
        k \in 1..Len(disk[RootFile].imports)} \cap Paths

\* the files at most n imports away from the current file
RECURSIVE WithinHops(_)
WithinHops(n) ==
    IF n = 0 THEN {RootFile}
    ELSE LET near == WithinHops(n - 1)
         IN near \cup
            (UNION {{ResolveImport(disk[f].imports[k].source) :
                        k \in 1..Len(disk[f].imports)} : f \in near} \cap Paths)

RECURSIVE IsSubsequence(_, _)
IsSubsequence(a, b) ==
    IF a = << >> THEN TRUE
    ELSE IF b = << >> THEN FALSE
    ELSE IF Head(a) = Head(b) THEN IsSubsequence(Tail(a), Tail(b))
    ELSE IsSubsequence(a, Tail(b))

RECURSIVE InListOrder(_, _)
\* the nodes of every level follow the import list of their file
InListOrder(trees, file) ==
    /\ IsSubsequence([k \in 1..Len(trees) |-> trees[k].importInfo.source],
                     [k \in 1..Len(disk[file].imports) |->
                         disk[file].imports[k].source])
    /\ \A k \in 1..Len(trees) :
          trees[k].hasNested
          => InListOrder(trees[k].nestedImports, trees[k].importInfo.resolvedPath)

\* C19: the imports of a list are handled one after another and depth
\* first: a list waits at the import whose nested list is being walked and
\* has handled none after it; the paths entered the processed set in the
\* depth-first pre-order of the returned forest; the nodes of each level
\* are in the order of their import list.
C19_SequentialDepthFirst ==
    /\ \A k \in 1..Len(stack) :
          LET f == stack[k]
          IN /\ \A j \in 1..Len(f.imports) :
                   f.handled[j].outcome # "pending" => j <= f.i
             /\ k < Len(stack) =>
                   /\ f.pc = "loop"
                   /\ f.i <= Len(f.imports)
                   /\ f.handled[f.i].outcome = "node"
                   /\ ResolveImport(f.imports[f.i].source) = stack[k + 1].currentFilePath
    /\ Returned =>
          /\ insertionOrder =
                <<RootFile>> \o [k \in 1..Len(ResultNodes) |-> ResultNodes[k].path]
          /\ InListOrder(result, RootFile)

\* a returned forest whose first node has a nested node and a sibling
C19_Witness ==
    /\ Returned
    /\ Len(result) >= 2
    /\ result[1].hasNested
    /\ Len(result[1].nestedImports) >= 1


(***************************************************************************)
(* Claims about the end of the scan, the locations and the content of the  *)
(* entries of the declaration extractor                                    *)
(***************************************************************************)
Stores == lastOutput.stores

\* the import record references the name
Referenced(n) ==
    \/ HasNamespace
    \/ n \in BoundNames \cup Aliases
    \/ n = "default" /\ \E k \in 1..Len(importInfo) : importInfo[k].isDefault

\* the formatted text of the lines start..end of the text (counted from 0)
FormattedLines(start, end) ==
    formatDeclaration(JoinLines(SubSeq(sourceCode, start + 1, end + 1)))

\* C21: when the scan ends while a declaration is being collected, the
\* buffer is finalized at the last line: the declaration ends at the index
\* of the last line, it is returned exactly when its name is imported and
\* was not kept before, with the lines from its start to the last one as
\* its content, and a diagnostic is written; the call returns.
C21_FinalizedAtEndOfFile ==
    (Extracted /\ lastOutput.collecting)
    => /\ lastOutput.diagnostics # << >>
       /\ Stores # << >>
       /\ LET d == Stores[Len(Stores)]
              before == {Stores[k].name : k \in {m \in 1..(Len(Stores) - 1) :
                                                   Stores[m].kept}}
          IN /\ d.end = Len(sourceCode) - 1
             /\ DeclaredAt(d.start + 1) = d.name
             /\ d.kept <=> (Referenced(d.name) /\ d.name \notin before)
             /\ d.kept
                => /\ Entries # << >>
                   /\ LET e == Entries[Len(Entries)]
                      IN /\ e.name = d.name
                         /\ e.location = [start |-> d.start,
                                          end |-> Len(sourceCode) - 1]
                         /\ e.content = FormattedLines(d.start, Len(sourceCode) - 1)

\* a declaration of two lines or more that no line closes is returned
C21_Witness ==
    /\ Extracted
    /\ lastOutput.collecting
    /\ Stores # << >>
    /\ Stores[Len(Stores)].kept
    /\ Stores[Len(Stores)].start < Len(sourceCode) - 1
    /\ ClosingLines(Stores[Len(Stores)].start) = {}

\* C22 as stated: every entry has 0 <= start <= end <= number of lines - 1,
\* its start line matches the declaration pattern with its name, its end
\* line is one at which the closing condition holds, and its content is the
\* formatted text of the lines start..end.
C22_EndIsClosingLine ==
    Extracted
    => \A k \in 1..Len(Entries) :
          LET e == Entries[k]
          IN /\ 0 <= e.location.start
             /\ e.location.start <= e.location.end
             /\ e.location.end <= Len(sourceCode) - 1
             /\ DeclaredAt(e.location.start + 1) = e.name
             /\ e.location.end \in ClosingLines(e.location.start)
             /\ e.content = FormattedLines(e.location.start, e.location.end)

\* C22 amended: the same, but the end line is one at which the closing
\* condition holds or, for the entry finalized at the end of the text while
\* it was being collected, the last line.
C22_LocationAndContent ==
    Extracted
    => \A k \in 1..Len(Entries) :
          LET e == Entries[k]
          IN /\ 0 <= e.location.start
             /\ e.location.start <= e.location.end
             /\ e.location.end <= Len(sourceCode) - 1
             /\ DeclaredAt(e.location.start + 1) = e.name
             /\ \/ e.location.end \in ClosingLines(e.location.start)
                \/ /\ lastOutput.collecting
                   /\ k = Len(Entries)
                   /\ e.location.end = Len(sourceCode) - 1
             /\ e.content = FormattedLines(e.location.start, e.location.end)

\* one entry ends at a closing line after its start, and the one after it
\* starts later than line 0 and is finalized at the end without one
C22_Witness ==
    /\ Extracted
    /\ Len(Entries) = 2
    /\ Entries[1].location.start < Entries[1].location.end
    /\ Entries[1].location.end \in ClosingLines(Entries[1].location.start)
    /\ Entries[2].location.start > 0
    /\ ClosingLines(Entries[2].location.start) = {}
    /\ lastOutput.collecting

\* C23: the entries are in the order of the text: the start lines are
\* strictly increasing along the list, and no line is in the ranges of two
\* entries.
C23_EntriesInSourceOrder ==
    Extracted
    => \A k, m \in 1..Len(Entries) :
          k < m
          => /\ Entries[k].location.start < Entries[m].location.start
             /\ (Entries[k].location.start..Entries[k].location.end)
                  \cap (Entries[m].location.start..Entries[m].location.end) = {}

\* two declarations of different names were returned for a namespace import
C23_Witness ==
    /\ Extracted
    /\ HasNamespace
    /\ Len(Entries) >= 2
    /\ Entries[1].name # Entries[2].name

\* C24: no entry starts on a line that lies inside braces opened by the
\* lines before it.
C24_OnlyTopLevelStarts ==
    Extracted
    => \A k \in 1..Len(Entries) :
          ~(BraceDepth(sourceCode, 1, Entries[k].location.start) > 0)

\* C25: no content begins, after its leading newline, with export default,
\* and a declaration whose line begins with export and no default keeps
\* its export.
C25_ExportDefaultStripped ==
    Extracted
    => \A k \in 1..Len(Entries) :
          LET c == Entries[k].content
              first == Trim(sourceCode[Entries[k].location.start + 1])
          IN /\ c[1] = "\n"
             /\ ~(Len(c) >= 3 /\ c[2] = "export" /\ c[3] = "default")
             /\ (first[1] = "export" /\ first[2] # "default")
                => c[2] = "export"


(***************************************************************************)
(* Claims about the order of the aliases, the matching of glob aliases,    *)
(* the replacement for a glob alias and the normal form of the table       *)
(***************************************************************************)
ResolveReturned == Called /\ ~rCall.out.threw

\* the alias of entry k of the table matches the path as the code matches
AliasMatches(k, path) ==
    IF isGlobPattern(aliasMap[k].alias)
    THEN Compiles(aliasMap[k].alias) /\ matchGlobPattern(path, aliasMap[k].alias)
    ELSE StartsWith(path, aliasMap[k].alias)

\* the entries of the class of the alias (literal or glob) that match
MatchingInClass(alias, path) ==
    {k \in 1..Len(aliasMap) :
        /\ isGlobPattern(aliasMap[k].alias) = isGlobPattern(alias)
        /\ AliasMatches(k, path)}

\* C27: the alias used is, among the aliases of its class that match the
\* specifier, one of the greatest length, and among those of that length
\* the one declared first; it is therefore fixed by table and specifier.
C27_LongestThenDeclarationOrder ==
    (ResolveReturned /\ rCall.out.matched)
    => LET used == rCall.out.usedAlias[1]
           class == MatchingInClass(used, NormalizedSpecifier)
       IN \E u \in class :
             /\ aliasMap[u].alias = used
             /\ \A k \in class :
                   \/ Len(aliasMap[k].alias) < Len(used)
                   \/ Len(aliasMap[k].alias) = Len(used) /\ u <= k

\* two glob aliases of one length match, together with a shorter one that
\* is declared before them, and the first declared of the two is used
C27_Witness ==
    /\ ResolveReturned
    /\ rCall.out.matched
    /\ \E h, j, k \in 1..Len(aliasMap) :
          /\ h < j
          /\ j < k
          /\ {h, j, k} \subseteq MatchingInClass(aliasMap[j].alias, NormalizedSpecifier)
          /\ isGlobPattern(aliasMap[j].alias)
          /\ Len(aliasMap[h].alias) < Len(aliasMap[j].alias)
          /\ Len(aliasMap[j].alias) = Len(aliasMap[k].alias)
          /\ rCall.out.usedAlias = <<aliasMap[j].alias>>

\* s.split(sep) on the characters of s
RECURSIVE SplitAt(_, _, _)
SplitAt(s, sep, current) ==
    IF s = << >> THEN {current}
    ELSE IF s[1] = sep THEN {current} \cup SplitAt(Tail(s), sep, << >>)
    ELSE SplitAt(Tail(s), sep, Append(current, s[1]))

\* glob matching as the claim states it: the whole of s, * any run of
\* characters, ? one character, {x,y} one of its alternatives
RECURSIVE GlobAccepts(_, _)
GlobAccepts(pattern, s) ==
    IF pattern = << >> THEN s = << >>
    ELSE IF pattern[1] = "*"
    THEN \E j \in 0..Len(s) : GlobAccepts(Tail(pattern), SubSeq(s, j + 1, Len(s)))
    ELSE IF pattern[1] = "?"
    THEN s # << >> /\ GlobAccepts(Tail(pattern), Tail(s))
    ELSE IF pattern[1] = "{" /\ IndexOf(pattern, <<"}">>) > 0
    THEN LET close == IndexOf(pattern, <<"}">>)
             rest == SubSeq(pattern, close + 1, Len(pattern))
         IN \E alt \in SplitAt(SubSeq(pattern, 2, close - 1), ",", << >>) :
               GlobAccepts(alt \o rest, s)
    ELSE s # << >> /\ s[1] = pattern[1] /\ GlobAccepts(Tail(pattern), Tail(s))

\* C28: on a table whose glob aliases compile and hold no bracket class,
\* a specifier that no literal alias matches is matched exactly when some
\* glob alias accepts the whole normalized specifier, with * for any run of
\* characters, ? for one character and {x,y} for x or y.
C28_GlobMatchesAsStated ==
    (/\ Called
     /\ AllCompile
     /\ \A k \in 1..Len(aliasMap) : ~Includes(aliasMap[k].alias, "[")
     /\ ~LiteralMatches(NormalizedSpecifier))
    => (rCall.out.matched
          <=> \E k \in 1..Len(aliasMap) :
                 /\ isGlobPattern(aliasMap[k].alias)
                 /\ GlobAccepts(aliasMap[k].alias, NormalizedSpecifier))

\* the text before the first * of s, the whole of s when it has none
LiteralPrefix(s) ==
    LET free == {m \in 0..Len(s) : \A i \in 1..m : s[i] # "*"}
        n == CHOOSE m \in free : \A other \in free : other <= m
    IN SubSeq(s, 1, n)

\* C29: when a glob alias is used, entry t of the resolved list is the text
\* of target t before its first * followed by what the normalized specifier
\* holds after as many characters as the alias has before its first *; so
\* for the alias P* with the target T* the specifier P + r gives T + r.
C29_PrefixSwapped ==
    (ResolveReturned /\ rCall.out.matched /\ isGlobPattern(rCall.out.usedAlias[1]))
    => LET used == rCall.out.usedAlias[1]
           spec == NormalizedSpecifier
           after == SubSeq(spec, Len(LiteralPrefix(used)) + 1, Len(spec))
       IN \E u \in 1..Len(aliasMap) :
             /\ aliasMap[u].alias = used
             /\ Len(rCall.out.resolved) = Len(aliasMap[u].targets)
             /\ \A t \in 1..Len(aliasMap[u].targets) :
                   LET target == aliasMap[u].targets[t]
                   IN /\ rCall.out.resolved[t] = LiteralPrefix(target) \o after
                      /\ (/\ used = LiteralPrefix(used) \o <<"*">>
                          /\ target = LiteralPrefix(target) \o <<"*">>
                          /\ StartsWith(spec, LiteralPrefix(used)))
                         => LiteralPrefix(used) \o after = spec

\* an alias P* with two targets, one of them T*, took a specifier P + r
\* with r not empty
C29_Witness ==
    /\ ResolveReturned
    /\ rCall.out.matched
    /\ isGlobPattern(rCall.out.usedAlias[1])
    /\ rCall.out.usedAlias[1] = LiteralPrefix(rCall.out.usedAlias[1]) \o <<"*">>
    /\ Len(NormalizedSpecifier) > Len(LiteralPrefix(rCall.out.usedAlias[1]))
    /\ Len(rCall.out.resolved) = 2
    /\ \E u \in 1..Len(aliasMap) :
          /\ aliasMap[u].alias = rCall.out.usedAlias[1]
          /\ \E t \in 1..Len(aliasMap[u].targets) :
                Includes(aliasMap[u].targets[t], "*")

\* a text without a run of stars at its end and without a run of separators
NormalizedText(s) ==
    /\ ~(Len(s) >= 2 /\ s[Len(s)] = "*" /\ s[Len(s) - 1] = "*")
    /\ \A i \in 1..(Len(s) - 1) : ~(s[i] = "/" /\ s[i + 1] = "/")

\* C30: at all times every alias and every target of the table is
\* normalized, and a literal alias whose normalized form is a prefix of the
\* normalized specifier makes the call match.
C30_TableNormalized ==
    /\ \A k \in 1..Len(aliasMap) :
          /\ NormalizedText(aliasMap[k].alias)
          /\ \A t \in 1..Len(aliasMap[k].targets) :
                NormalizedText(aliasMap[k].targets[t])
    /\ (ResolveReturned
        /\ \E k \in 1..Len(aliasMap) :
              /\ ~isGlobPattern(aliasMap[k].alias)
              /\ StartsWith(NormalizedSpecifier, CollapseSlashes(aliasMap[k].alias)))
       => rCall.out.matched


(***************************************************************************)
(* Claim about relative specifiers                                         *)
(***************************************************************************)
Relative == StartsWith(locating, <<".">>)

\* the directory of the importing file joined with what follows "./" in
\* the specifier, with extension e of .ts, .tsx, .js, .jsx
DirectPath(e) ==
    <<"/">> \o CurrentDir \o <<"/">> \o SubSeq(locating, 3, Len(locating))
      \o << <<".ts", ".tsx", ".js", ".jsx">>[e] >>

\* an alias of the table matches the specifier
TableMatches == resolvePath(normalizeAliasMap(tsconfig, << >>), locating).matched

\* C26: a specifier that starts with "." gives the first of the paths
\* (directory of the importing file joined with the specifier) + .ts, .tsx,
\* .js, .jsx that exists, and null when none of the four exists, whatever
\* the alias table holds and whatever other files exist.
C26_RelativeProbedDirectly ==
    (Relative /\ located.state \notin {"pending", "idle"})
    => LET existing == {e \in 1..4 : DirectPath(e) \in fileSystem}
       IN /\ located.state # "threw"
          /\ located.state = "null" <=> existing = {}
          /\ located.state = "path"
             => \E e \in existing :
                   /\ located.path = DirectPath(e)
                   /\ \A other \in existing : e <= other

\* an alias matches the specifier and the file of its target exists, and
\* the joined path is found with an extension later than .ts
C26_Witness ==
    /\ Relative
    /\ TableMatches
    /\ \E k \in 1..Len(LocatorTargets) :
          Append(JoinFromRoot(<<LocatorTargets[k]>>), ".ts") \in fileSystem
    /\ located.state = "path"
    /\ located.path # DirectPath(1)


(***************************************************************************)
(* Claim about the result record of resolvePath                            *)
(***************************************************************************)
\* C31: every call returns, with a resolved list that is not empty: one
\* entry for each target of the alias used when an alias matched, the
\* normalized specifier alone when none did; originalPath is the normalized
\* specifier.
C31_ResolvedNonEmpty ==
    Called
    => /\ ~rCall.out.threw
       /\ rCall.out.resolved # << >>
       /\ rCall.out.matched
          => \E u \in 1..Len(aliasMap) :
                /\ aliasMap[u].alias = rCall.out.usedAlias[1]
                /\ Len(rCall.out.resolved) = Len(aliasMap[u].targets)
       /\ ~rCall.out.matched => rCall.out.resolved = <<NormalizedSpecifier>>
       /\ rCall.out.originalPath = NormalizedSpecifier


(***************************************************************************)
(* Claims about the traversal as a whole                                   *)
(***************************************************************************)
\* the files whose text can be read and that are at most n imports away from
\* the root file along imports that resolve to files whose text can be read
RECURSIVE ReadableWithin(_)
ReadableWithin(n) ==
    IF n = 0 THEN {RootFile}
    ELSE LET near == ReadableWithin(n - 1)
             next == UNION {{ResolveImport(disk[f].imports[k].source) :
                                k \in 1..Len(disk[f].imports)} : f \in near}
         IN near \cup {g \in next \cap Paths : disk[g].state = "text"}

\* C32: every file other than the root file that a chain of at most maxDepth
\* imports reaches from the root file, each import resolving to a file that
\* can be read, is the resolvedPath of a node of the returned forest.
C32_EveryReachableFileIsNode ==
    Returned
    => \A f \in ReadableWithin(depthArg) \ {RootFile} :
          \E k \in 1..Len(ResultNodes) : ResultNodes[k].path = f


\* the imports of the activations in progress that the loop has dealt with
HandledImports ==
    {<<k, j>> \in (1..Len(stack)) \X (1..MaxTotalImports) :
        /\ j <= Len(stack[k].imports)
        /\ stack[k].handled[j].outcome # "pending"}

\* C33: an import that the traversal has dealt with holds a resolvedPath
\* exactly when it became a node, and then the path of a file the locator
\* found; an import left out of the result (not resolved, already
\* processed, or its file not readable) still has the empty resolvedPath.
C33_ResolvedPathOnlyOnNodes ==
    \A kj \in HandledImports :
        LET imp == stack[kj[1]].imports[kj[2]]
        IN IF stack[kj[1]].handled[kj[2]].outcome = "node"
           THEN imp.resolvedPath \in Paths
           ELSE imp.resolvedPath = ""


(***************************************************************************)
(* Claim about calls of one extractor that are not awaited one by one      *)
(***************************************************************************)
\* what a call with the record info returns on an instance of its own
Alone(info) == extractImportedEntities(sourceCode, info, {}).extracted

\* C34: of two calls issued one right after the other on the same instance,
\* in either order, each returns what it returns on an instance of its own.
C34_ConcurrentCallsIndependent ==
    /\ calls = "between"
       => /\ firstOutput = Alone(importInfo)
          /\ lastOutput.extracted = Alone(OtherImport)
    /\ calls = "again" => lastOutput.extracted = Alone(importInfo)

\* both calls were issued and both returned a declaration of the same name
C34_Witness ==
    /\ calls = "between"
    /\ \E j \in 1..Len(firstOutput), k \in 1..Len(lastOutput.extracted) :
          firstOutput[j].name = lastOutput.extracted[k].name


(***************************************************************************)
(* Claims about the warning and the file selector of the copy command      *)
(***************************************************************************)
\* the combined line count of the main file and the files to be copied
CombinedLines == lineCount + Cardinality(window.files)

\* copyAllFiles or copySelectedFiles has called confirmLargeFileOperation
ConfirmCalled == window.option \in {"all", "selected"} /\ window.warning # "none"

\* C35: copyAllFiles and copySelectedFiles write the clipboard only after
\* confirmLargeFileOperation returned true. With a combined line count of
\* at most 2000 no warning is shown and the text is copied; over 2000 the
\* warning is shown and the text is copied exactly when the answer is
\* "Copy Anyway"; after "Cancel" or a dismissal nothing is written and no
\* notification is shown.
C35_CopyOnlyAfterConfirm ==
    /\ window.option \in {"all", "selected"}
       => /\ clipboard.written => window.warning \in {"skipped", "Copy Anyway"}
          /\ window.information => clipboard.written
    /\ ConfirmCalled
       => /\ window.totalLines = CombinedLines
          /\ CombinedLines <= 2000
             => window.warning = "skipped" /\ clipboard.written
          /\ CombinedLines > 2000
             => /\ window.warning \in {"shown"} \cup Answers
                /\ window.warning = "Copy Anyway" => clipboard.written
                /\ window.warning \in {"shown", "Cancel", "undefined"}
                   => ~clipboard.written /\ ~window.information

\* the selected files took the text over the limit with the main file at
\* it, the warning was shown and dismissed, and nothing was copied
C35_Witness ==
    /\ window.option = "selected"
    /\ lineCount <= 2000
    /\ CombinedLines > 2000
    /\ window.warning = "undefined"
    /\ status = "cancelled"
    /\ ~clipboard.written

\* C36: the promise of showFileSelector, once settled, keeps its value. An
\* accept settles it with the main file followed by the files selected at
\* that moment, and the hide after it leaves that value; a hide with no
\* accept before it settles it with undefined, and then nothing is copied.
C36_SettlesOnceWithFirstEvent ==
    /\ [](/\ window.accepted
             => window.promise = Settled(<<RootFile>> \o window.selectedFiles)
          /\ (window.selector = "hidden" /\ ~window.accepted)
             => /\ window.promise = Undefined
                /\ ~clipboard.written
                /\ window.warning = "none"
          /\ window.selector = "shown" => window.promise.state = "pending")
    /\ [][window.promise.state # "pending" => window.promise' = window.promise]_vars

\* files were selected and accepted, the selector has been hidden since,
\* and the selected files were copied
C36_Witness ==
    /\ window.accepted
    /\ window.selector = "hidden"
    /\ Len(window.promise.files) > 2
    /\ clipboard.written
    /\ clipboard.files # {}

====
